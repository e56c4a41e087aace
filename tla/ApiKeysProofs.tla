--------------------------- MODULE ApiKeysProofs ---------------------------
(***************************************************************************)
(* Theorems about ApiKeys: type correctness, that a revoked key stays      *)
(* revoked, that a user has one request waiting, that what the pages show  *)
(* is what works, that rotations keep a day's distance, and that a key's   *)
(* requests keep to its limit, for any number of keys, operations, admins, *)
(* deaths and any length of the day and the hour.                          *)
(***************************************************************************)
EXTENDS ApiKeys, FiniteSetTheorems, TLAPS

OpRec == [kind : Kinds, pc : Pcs, key : Keys \cup {Nothing}, limit : Nat,
          start : Nat, at : Nat]
NeedsKey == {"approve", "revoke", "cooldown", "swap", "count"}

\* The operations are well typed, and one that works on a key has one.
OpsOK ==
  /\ op \in [Ops -> OpRec]
  /\ \A o \in Ops : op[o].pc \in NeedsKey => op[o].key \in Keys /\ status[op[o].key] # "none"

\* The rows, by column.
RowsOK ==
  /\ status \in [Keys -> {"none", "pending", "active", "revoked"}]
  /\ hash \in [Keys -> Keys \cup {Nothing}] /\ prefix \in [Keys -> Keys \cup {Nothing, HashCut}]
  /\ plain \in [Keys -> Keys \cup {Nothing}] /\ limit \in [Keys -> Limits]

\* Everything else.
OthersOK ==
  /\ bucket \in [Keys -> [start : Nat, count : Nat]]
  /\ rotated \subseteq Nat /\ now \in Nat /\ faults \in Nat
  /\ dead \subseteq Keys /\ stacked \in BOOLEAN /\ rushed \subseteq Ops /\ early \subseteq Keys
  /\ gone \subseteq Keys \X Nat /\ again \subseteq gone

LEMMA TypeParts == TypeOK <=> OpsOK /\ RowsOK /\ OthersOK
BY DEF TypeOK, OpsOK, RowsOK, OthersOK, OpRec, NeedsKey, Exists

LEMMA OpsAreKeys == Ops \subseteq Keys /\ Initial \subseteq Keys /\ Nothing \notin Keys
BY KeysAssumption DEF Keys

LEMMA WindowType ==
  ASSUME NEW t \in Nat, NEW l \in Nat \ {0}
  PROVE  WindowStart(t, l) \in Nat
<1>1. t % l \in Nat /\ t % l <= t OBVIOUS
<1> QED BY <1>1 DEF WindowStart

LEMMA LengthType == \A route : Length(route) \in Nat \ {0}
BY KeysAssumption DEF Length

\* No row is ever deleted.
RowsStay == \A k \in Keys : status[k] # "none" => status'[k] # "none"

\* One operation takes a step, and no row disappears.
LEMMA OpsChange ==
  ASSUME OpsOK, NEW o \in Ops, NEW r \in OpRec, op' = [op EXCEPT ![o] = r], RowsStay,
         r.pc \in NeedsKey => r.key \in Keys /\ status'[r.key] # "none"
  PROVE  OpsOK'
<1>1. op' \in [Ops -> OpRec] BY DEF OpsOK
<1>2. ASSUME NEW p \in Ops, op'[p].pc \in NeedsKey
      PROVE  op'[p].key \in Keys /\ status'[op'[p].key] # "none"
  <2>1. CASE p = o BY <1>2, <2>1 DEF OpsOK
  <2>2. CASE p # o BY <1>2, <2>2 DEF OpsOK, RowsStay
  <2> QED BY <2>1, <2>2
<1> QED BY <1>1, <1>2 DEF OpsOK

\* A step of an operation under way.
LEMMA StepsType ==
  ASSUME OpsOK, NEW o \in Ops, NEW pc \in Pcs, Steps(o, pc), RowsStay,
         pc \in NeedsKey => op[o].pc \in NeedsKey
  PROVE  OpsOK'
<1> DEFINE r == [op[o] EXCEPT !.pc = pc]
<1>1. op[o] \in OpRec BY DEF OpsOK
<1>2. r \in OpRec /\ r.pc = pc /\ r.key = op[o].key BY <1>1 DEF OpRec
<1>3. op' = [op EXCEPT ![o] = r] BY DEF Steps, OpsOK
<1>4. r.pc \in NeedsKey => r.key \in Keys /\ status'[r.key] # "none"
  BY <1>2 DEF OpsOK, RowsStay
<1> HIDE DEF r
<1> QED BY <1>2, <1>3, <1>4, OpsChange

\* Its first step.
LEMMA StartsType ==
  ASSUME OpsOK, NEW o \in Ops, NEW kind \in Kinds, NEW pc \in Pcs, NEW k \in Keys,
         Starts(o, kind, pc, k), RowsStay, pc \in NeedsKey => status[k] # "none"
  PROVE  OpsOK'
<1> DEFINE r == [op[o] EXCEPT !.kind = kind, !.pc = pc, !.key = k]
<1>1. op[o] \in OpRec BY DEF OpsOK
<1>2. r \in OpRec /\ r.pc = pc /\ r.key = k BY <1>1 DEF OpRec
<1>3. op' = [op EXCEPT ![o] = r] BY DEF Starts, OpsOK
<1>4. r.pc \in NeedsKey => r.key \in Keys /\ status'[r.key] # "none"
  BY <1>2 DEF RowsStay
<1> HIDE DEF r
<1> QED BY <1>2, <1>3, <1>4, OpsChange

LEMMA InitType == Init => TypeOK
<1> SUFFICES ASSUME Init PROVE TypeOK OBVIOUS
<1> USE KeysAssumption
<1>1. op \in [Ops -> OpRec] BY DEF Init, Begin, OpRec, Kinds, Pcs
<1>2. OpsOK BY <1>1 DEF Init, Begin, OpsOK, NeedsKey
<1>3. RowsOK BY DEF Init, RowsOK, Keys
<1>4. OthersOK BY DEF Init, OthersOK
<1> QED BY <1>2, <1>3, <1>4, TypeParts

LEMMA NewRowType ==
  ASSUME RowsOK, NEW o \in Ops, NewRow(o), UNCHANGED <<prefix, plain>>
  PROVE  RowsOK' /\ RowsStay
<1>1. DefaultLimit \in Limits /\ o \in Keys BY KeysAssumption, OpsAreKeys
<1>2. status' = [status EXCEPT ![o] = "pending"] BY DEF NewRow
<1>3. hash' = [hash EXCEPT ![o] = o] BY DEF NewRow
<1>4. limit' = [limit EXCEPT ![o] = DefaultLimit] BY DEF NewRow
<1>5. status' \in [Keys -> {"none", "pending", "active", "revoked"}] BY <1>2 DEF RowsOK
<1>6. hash' \in [Keys -> Keys \cup {Nothing}] BY <1>1, <1>3 DEF RowsOK
<1>7. limit' \in [Keys -> Limits] BY <1>1, <1>4 DEF RowsOK
<1>8. RowsStay BY <1>2 DEF RowsStay, RowsOK
<1> QED BY <1>5, <1>6, <1>7, <1>8 DEF RowsOK

LEMMA RevokedType ==
  ASSUME RowsOK, OthersOK, NEW k \in Keys, Revoked(k), UNCHANGED <<hash, prefix, plain, limit>>
  PROVE  RowsOK' /\ RowsStay /\ dead' \subseteq Keys
<1>1. status' = [status EXCEPT ![k] = "revoked"] /\ dead' \subseteq dead \cup {k}
  BY DEF Revoked
<1>2. status' \in [Keys -> {"none", "pending", "active", "revoked"}] BY <1>1 DEF RowsOK
<1>3. RowsStay BY <1>1 DEF RowsStay, RowsOK
<1> QED BY <1>1, <1>2, <1>3 DEF RowsOK, OthersOK

\* The steps that leave the rows alone.
LEMMA SameRows == ASSUME RowsOK, UNCHANGED row PROVE RowsOK' /\ RowsStay
BY DEF RowsOK, RowsStay, row

LEMMA SameOthers ==
  ASSUME OthersOK, UNCHANGED <<bucket, rotated, now, faults, history>>
  PROVE  OthersOK'
BY DEF OthersOK, history

LEMMA NextType ==
  ASSUME TypeOK, [Next]_vars
  PROVE  TypeOK' /\ RowsStay
<1> OpsOK /\ RowsOK /\ OthersOK BY TypeParts
<1> SUFFICES OpsOK' /\ RowsOK' /\ OthersOK' /\ RowsStay
  BY TypeParts DEF TypeOK, OpsOK, RowsOK, OthersOK, OpRec, NeedsKey, Exists
<1> USE OpsAreKeys
<1>1. ASSUME NEW o \in Ops, RequestKey(o) PROVE OpsOK' /\ RowsOK' /\ OthersOK' /\ RowsStay
  <2>1. RowsOK' /\ RowsStay BY <1>1, SameRows DEF RequestKey
  <2>2. Starts(o, "request", "create", o) BY <1>1 DEF RequestKey
  <2>3. OpsOK' BY <2>1, <2>2, StartsType DEF Kinds, Pcs, NeedsKey
  <2>4. stacked' \in BOOLEAN BY <1>1 DEF RequestKey, OthersOK
  <2>5. OthersOK' BY <1>1, <2>4 DEF RequestKey, OthersOK
  <2> QED BY <2>1, <2>3, <2>5
<1>2. ASSUME NEW o \in Ops, CreateRow(o) PROVE OpsOK' /\ RowsOK' /\ OthersOK' /\ RowsStay
  <2>1. RowsOK' /\ RowsStay BY <1>2, NewRowType DEF CreateRow
  <2>2. OpsOK' BY <1>2, <2>1, StepsType DEF CreateRow, Pcs, NeedsKey
  <2>3. OthersOK' BY <1>2, SameOthers DEF CreateRow
  <2> QED BY <2>1, <2>2, <2>3
<1>3. ASSUME NEW o \in Ops, PatchPrefix(o) PROVE OpsOK' /\ RowsOK' /\ OthersOK' /\ RowsStay
  <2>1. prefix' \in [Keys -> Keys \cup {Nothing, HashCut}] BY <1>3 DEF PatchPrefix, RowsOK
  <2>2. RowsOK' /\ RowsStay BY <1>3, <2>1 DEF PatchPrefix, RowsOK, RowsStay
  <2>3. \E pc \in {"audit", "done"} : Steps(o, pc) BY <1>3 DEF PatchPrefix
  <2>4. OpsOK' BY <2>2, <2>3, StepsType DEF Pcs, NeedsKey
  <2>5. OthersOK' BY <1>3, SameOthers DEF PatchPrefix
  <2> QED BY <2>2, <2>4, <2>5
<1>4. ASSUME NEW o \in Ops, WriteRevoked(o) PROVE OpsOK' /\ RowsOK' /\ OthersOK' /\ RowsStay
  <2>1. op[o].key \in Keys BY <1>4 DEF WriteRevoked, OpsOK, NeedsKey
  <2>2. RowsOK' /\ RowsStay /\ dead' \subseteq Keys
    BY <1>4, <2>1, RevokedType DEF WriteRevoked
  <2>3. OpsOK' BY <1>4, <2>2, StepsType DEF WriteRevoked, Pcs, NeedsKey
  <2>4. OthersOK' BY <1>4, <2>2 DEF WriteRevoked, OthersOK
  <2> QED BY <2>2, <2>3, <2>4
<1>5. ASSUME NEW o \in Ops, CheckCooldown(o) PROVE OpsOK' /\ RowsOK' /\ OthersOK' /\ RowsStay
  <2>1. RowsOK' /\ RowsStay BY <1>5, SameRows DEF CheckCooldown
  <2>2. \E pc \in {"refused", "swap"} : Steps(o, pc) BY <1>5 DEF CheckCooldown
  <2>3. op[o].pc \in NeedsKey BY <1>5 DEF CheckCooldown, NeedsKey
  <2>4. OpsOK' BY <2>1, <2>2, <2>3, StepsType DEF Pcs
  <2>5. OthersOK' BY <1>5 DEF CheckCooldown, OthersOK
  <2> QED BY <2>1, <2>4, <2>5
<1>6. ASSUME NEW o \in Ops, Swap(o) PROVE OpsOK' /\ RowsOK' /\ OthersOK' /\ RowsStay
  <2> DEFINE k == op[o].key
             r == [op[o] EXCEPT !.pc = "patch", !.at = now]
  <2>1. k \in Keys BY <1>6 DEF Swap, OpsOK, NeedsKey
  <2>2. status' = [status EXCEPT ![k] = "revoked", ![o] = "pending"] BY <1>6 DEF Swap
  <2>3. status' \in [Keys -> {"none", "pending", "active", "revoked"}] /\ RowsStay
    BY <2>1, <2>2 DEF RowsOK, RowsStay
  <2>4. hash' \in [Keys -> Keys \cup {Nothing}] /\ plain' \in [Keys -> Keys \cup {Nothing}]
    BY <1>6 DEF Swap, RowsOK
  <2>5. limit' \in [Keys -> Limits] BY <1>6, KeysAssumption DEF Swap, RowsOK
  <2>6. RowsOK' BY <1>6, <2>3, <2>4, <2>5 DEF Swap, RowsOK
  <2>7. op[o] \in OpRec /\ now \in Nat BY DEF OpsOK, OthersOK
  <2>8. r \in OpRec /\ r.pc = "patch" BY <2>7 DEF OpRec, Pcs
  <2>9. op' = [op EXCEPT ![o] = r] BY <1>6 DEF Swap, OpsOK
  <2>10. OpsOK'
    <3> HIDE DEF r
    <3> QED BY <2>3, <2>8, <2>9, OpsChange DEF NeedsKey
  <2>11. dead' \subseteq dead \cup {k} BY <1>6 DEF Swap
  <2>12. OthersOK' BY <1>6, <2>1, <2>11 DEF Swap, OthersOK
  <2> QED BY <2>3, <2>6, <2>10, <2>12
<1>7. ASSUME NEW o \in Ops, AuditRotation(o) PROVE OpsOK' /\ RowsOK' /\ OthersOK' /\ RowsStay
  <2>1. RowsOK' /\ RowsStay BY <1>7, SameRows DEF AuditRotation
  <2>2. OpsOK' BY <1>7, <2>1, StepsType DEF AuditRotation, Pcs, NeedsKey
  <2>3. OthersOK' BY <1>7 DEF AuditRotation, OthersOK, history
  <2> QED BY <2>1, <2>2, <2>3
<1>8. ASSUME NEW o \in Ops, Count(o) PROVE OpsOK' /\ RowsOK' /\ OthersOK' /\ RowsStay
  <2> DEFINE k == op[o].key
             s == op[o].start
  <2>1. k \in Keys /\ s \in Nat BY <1>8 DEF Count, OpsOK, NeedsKey, OpRec
  <2>2. RowsOK' /\ RowsStay BY <1>8, SameRows DEF Count
  <2>3. \E pc \in {"admitted", "refused"} : Steps(o, pc) BY <1>8 DEF Count, Verdict
  <2>4. OpsOK' BY <2>2, <2>3, StepsType DEF Pcs, NeedsKey
  <2>5. bucket[k].start \in Nat /\ bucket[k].count \in Nat BY <2>1 DEF OthersOK
  <2>6. Held(k, s) + 1 \in Nat BY <2>5 DEF Held
  <2>7. bucket' = [bucket EXCEPT ![k] = [start |-> s, count |-> Held(k, s) + 1]]
    BY <1>8 DEF Count
  <2>8. bucket' \in [Keys -> [start : Nat, count : Nat]]
    BY <2>1, <2>6, <2>7 DEF OthersOK
  <2>9. gone' = gone \cup {<<k, bucket[k].start>>} \/ gone' = gone BY <1>8 DEF Count
  <2>10. gone' \subseteq Keys \X Nat BY <2>1, <2>5, <2>9 DEF OthersOK
  <2>11. (again' = again \cup {<<k, s>>} /\ <<k, s>> \in gone) \/ again' = again
    BY <1>8 DEF Count
  <2>12. again' \subseteq gone' BY <2>9, <2>11 DEF OthersOK
  <2>13. OthersOK' BY <1>8, <2>8, <2>10, <2>12 DEF Count, OthersOK
  <2> QED BY <2>2, <2>4, <2>13
<1>9. ASSUME NEW o \in Ops, Die(o) PROVE OpsOK' /\ RowsOK' /\ OthersOK' /\ RowsStay
  <2>1. RowsOK' /\ RowsStay BY <1>9, SameRows DEF Die
  <2>2. OpsOK' BY <1>9, <2>1, StepsType DEF Die, Pcs, NeedsKey
  <2>3. OthersOK' BY <1>9 DEF Die, OthersOK, history
  <2> QED BY <2>1, <2>2, <2>3
<1>10. ASSUME NEW o \in Ops, NEW n \in Limits, Issue(o, n)
       PROVE OpsOK' /\ RowsOK' /\ OthersOK' /\ RowsStay
  <2> DEFINE k == op[o].key
  <2>1. k \in Keys BY <1>10 DEF Issue, OpsOK, NeedsKey
  <2>2. status' = [status EXCEPT ![k] = "active"] BY <1>10 DEF Issue
  <2>3. status' \in [Keys -> {"none", "pending", "active", "revoked"}] /\ RowsStay
    BY <2>1, <2>2 DEF RowsOK, RowsStay
  <2>4. /\ hash' \in [Keys -> Keys \cup {Nothing}] /\ prefix' \in [Keys -> Keys \cup {Nothing, HashCut}]
        /\ plain' \in [Keys -> Keys \cup {Nothing}] /\ limit' \in [Keys -> Limits]
    BY <1>10 DEF Issue, RowsOK
  <2>5. RowsOK' BY <2>3, <2>4 DEF RowsOK
  <2>6. OpsOK' BY <1>10, <2>3, StepsType DEF Issue, Pcs, NeedsKey
  <2>7. early' \subseteq early \cup {k} BY <1>10 DEF Issue
  <2>8. OthersOK' BY <1>10, <2>1, <2>7 DEF Issue, OthersOK
  <2> QED BY <2>3, <2>5, <2>6, <2>8
<1>11. ASSUME NEW o \in Ops, NEW k \in Keys, Approve(o, k)
       PROVE OpsOK' /\ RowsOK' /\ OthersOK' /\ RowsStay
  <2>1. RowsOK' /\ RowsStay BY <1>11, SameRows DEF Approve
  <2>2. OpsOK' BY <1>11, <2>1, StartsType DEF Approve, MayApprove, Exists, Kinds, Pcs
  <2>3. OthersOK' BY <1>11, SameOthers DEF Approve
  <2> QED BY <2>1, <2>2, <2>3
<1>12. ASSUME NEW o \in Ops, NEW k \in Keys, RevokeKey(o, k)
       PROVE OpsOK' /\ RowsOK' /\ OthersOK' /\ RowsStay
  <2>1. RowsOK' /\ RowsStay /\ dead' \subseteq Keys BY <1>12, RevokedType DEF RevokeKey
  <2>2. OpsOK' BY <1>12, <2>1, StartsType DEF RevokeKey, Kinds, Pcs, NeedsKey
  <2>3. OthersOK' BY <1>12, <2>1 DEF RevokeKey, OthersOK
  <2> QED BY <2>1, <2>2, <2>3
<1>13. ASSUME NEW o \in Ops, NEW k \in Keys, RevokeOwnKey(o, k)
       PROVE OpsOK' /\ RowsOK' /\ OthersOK' /\ RowsStay
  <2>1. RowsOK' /\ RowsStay BY <1>13, SameRows DEF RevokeOwnKey
  <2>2. OpsOK' BY <1>13, <2>1, StartsType DEF RevokeOwnKey, Exists, Kinds, Pcs
  <2>3. OthersOK' BY <1>13, SameOthers DEF RevokeOwnKey
  <2> QED BY <2>1, <2>2, <2>3
<1>14. ASSUME NEW o \in Ops, NEW k \in Keys, RotateKey(o, k)
       PROVE OpsOK' /\ RowsOK' /\ OthersOK' /\ RowsStay
  <2>1. RowsOK' /\ RowsStay BY <1>14, SameRows DEF RotateKey
  <2>2. OpsOK' BY <1>14, <2>1, StartsType DEF RotateKey, Kinds, Pcs
  <2>3. OthersOK' BY <1>14, SameOthers DEF RotateKey
  <2> QED BY <2>1, <2>2, <2>3
<1>15. ASSUME NEW o \in Ops, NEW k \in Keys, NEW n \in Limits, ChangeLimits(o, k, n)
       PROVE OpsOK' /\ RowsOK' /\ OthersOK' /\ RowsStay
  <2>1. limit' \in [Keys -> Limits] BY <1>15 DEF ChangeLimits, RowsOK
  <2>2. RowsOK' /\ RowsStay BY <1>15, <2>1 DEF ChangeLimits, RowsOK, RowsStay
  <2>3. OpsOK' BY <1>15, <2>2, StartsType DEF ChangeLimits, Kinds, Pcs, NeedsKey
  <2>4. OthersOK' BY <1>15, SameOthers DEF ChangeLimits
  <2> QED BY <2>2, <2>3, <2>4
<1>16. ASSUME NEW o \in Ops, NEW k \in Keys, NEW route \in {"minute", "hour"},
              UseKey(o, k, route)
       PROVE OpsOK' /\ RowsOK' /\ OthersOK' /\ RowsStay
  <2> DEFINE r == [kind |-> route, pc |-> "count", key |-> k,
                   limit |-> IF route = "minute" THEN limit[k] ELSE PerHour,
                   start |-> WindowStart(now, Length(route)), at |-> now]
  <2>1. RowsOK' /\ RowsStay BY <1>16, SameRows DEF UseKey
  <2>2. now \in Nat /\ limit[k] \in Nat /\ PerHour \in Nat
    BY KeysAssumption DEF OthersOK, RowsOK
  <2>3. r.limit \in Nat BY <2>2
  <2>4. r.start \in Nat BY <2>2, LengthType, WindowType
  <2>5. r \in OpRec BY <2>2, <2>3, <2>4 DEF OpRec, Kinds, Pcs
  <2>6. op' = [op EXCEPT ![o] = r] /\ status[k] = "active" BY <1>16 DEF UseKey
  <2>7. r.key = k /\ r.key \in Keys /\ status'[r.key] # "none" BY <2>1, <2>6 DEF RowsStay
  <2>8. OpsOK'
    <3> HIDE DEF r
    <3> QED BY <2>1, <2>5, <2>6, <2>7, OpsChange
  <2>9. OthersOK' BY <1>16, SameOthers DEF UseKey
  <2> QED BY <2>1, <2>8, <2>9
<1>17. ASSUME MinutePasses PROVE OpsOK' /\ RowsOK' /\ OthersOK' /\ RowsStay
  <2>1. RowsOK' /\ RowsStay BY <1>17, SameRows DEF MinutePasses
  <2>2. OpsOK' BY <1>17 DEF MinutePasses, OpsOK, row
  <2>3. OthersOK' BY <1>17 DEF MinutePasses, OthersOK, history
  <2> QED BY <2>1, <2>2, <2>3
<1>18. ASSUME UNCHANGED vars PROVE OpsOK' /\ RowsOK' /\ OthersOK' /\ RowsStay
  <2>1. RowsOK' /\ RowsStay BY <1>18, SameRows DEF vars, row
  <2>2. OpsOK' BY <1>18 DEF vars, OpsOK, row
  <2>3. OthersOK' BY <1>18, SameOthers DEF vars
  <2> QED BY <2>1, <2>2, <2>3
<1> QED
  BY <1>1, <1>2, <1>3, <1>4, <1>5, <1>6, <1>7, <1>8, <1>9, <1>10, <1>11, <1>12, <1>13,
     <1>14, <1>15, <1>16, <1>17, <1>18 DEF Next

\* Every reachable state is well typed.
THEOREM KeysTypeOK == Spec => []TypeOK
<1>1. Init => TypeOK BY InitType
<1>2. TypeOK /\ [Next]_vars => TypeOK' BY NextType
<1> QED BY <1>1, <1>2, PTL DEF Spec

-----------------------------------------------------------------------------
(* Inductive invariants.                                                   *)

\* An operation has no row before the step that creates it.
NoRowYet ==
  \A o \in Ops : op[o].pc \in {"idle", "create", "cooldown", "swap"} => status[o] = "none"

\* Keys revoked for good stay revoked, and no approval has read them.
DeadInv ==
  \A k \in dead : status[k] = "revoked"
                   /\ \A o \in Ops : op[o].pc = "approve" => op[o].key # k

\* A key that is active before its prefix is patched was approved early.
PatchInv ==
  \A o \in Ops : op[o].pc = "patch" /\ status[o] = "active" => o \in early

\* Only rotations come to the steps of a rotation.
KindInv ==
  \A o \in Ops : op[o].pc \in {"cooldown", "swap", "audit"} => op[o].kind = "rotate"

\* The requests of new keys that are checked, or wait for an admin.
Asked(o) == op[o].kind = "request" /\ (op[o].pc = "create" \/ status[o] = "pending")
OneAsked == stacked \/ \A o, p \in Ops : Asked(o) /\ Asked(p) => o = p

LEMMA NoRowYetStep ==
  ASSUME TypeOK, [Next]_vars, NoRowYet
  PROVE  NoRowYet'
<1> OpsOK /\ RowsOK /\ OthersOK BY TypeParts
<1> USE OpsAreKeys DEF NoRowYet, OpsOK, RowsOK, NeedsKey
<1>1. ASSUME NEW o \in Ops, RequestKey(o)
      PROVE  NoRowYet'
  BY <1>1 DEF RequestKey, Starts, row, history
<1>2. ASSUME NEW o \in Ops, CreateRow(o)
      PROVE  NoRowYet'
  BY <1>2 DEF CreateRow, NewRow, Steps, row, history
<1>3. ASSUME NEW o \in Ops, PatchPrefix(o)
      PROVE  NoRowYet'
  BY <1>3 DEF PatchPrefix, Steps, row, history
<1>4. ASSUME NEW o \in Ops, WriteRevoked(o)
      PROVE  NoRowYet'
  BY <1>4 DEF WriteRevoked, Revoked, Unread, At, Steps, row, history
<1>5. ASSUME NEW o \in Ops, CheckCooldown(o)
      PROVE  NoRowYet'
  BY <1>5 DEF CheckCooldown, Steps, row, history
<1>6. ASSUME NEW o \in Ops, Swap(o)
      PROVE  NoRowYet'
  BY <1>6 DEF Swap, Unread, At, row, history
<1>7. ASSUME NEW o \in Ops, AuditRotation(o)
      PROVE  NoRowYet'
  BY <1>7 DEF AuditRotation, Steps, row, history
<1>8. ASSUME NEW o \in Ops, Count(o)
      PROVE  NoRowYet'
  BY <1>8 DEF Count, Steps, Verdict, row, history
<1>9. ASSUME NEW o \in Ops, Die(o)
      PROVE  NoRowYet'
  BY <1>9 DEF Die, Steps, row, history
<1>10. ASSUME NEW o \in Ops, NEW n \in Limits, Issue(o, n)
      PROVE  NoRowYet'
  BY <1>10 DEF Issue, Steps, At, row, history
<1>11. ASSUME NEW o \in Ops, NEW k \in Keys, Approve(o, k)
      PROVE  NoRowYet'
  BY <1>11 DEF Approve, Starts, MayApprove, Exists, row, history
<1>12. ASSUME NEW o \in Ops, NEW k \in Keys, RevokeKey(o, k)
      PROVE  NoRowYet'
  BY <1>12 DEF RevokeKey, Starts, Revoked, Unread, At, Exists, row, history
<1>13. ASSUME NEW o \in Ops, NEW k \in Keys, RevokeOwnKey(o, k)
      PROVE  NoRowYet'
  BY <1>13 DEF RevokeOwnKey, Starts, Exists, row, history
<1>14. ASSUME NEW o \in Ops, NEW k \in Keys, RotateKey(o, k)
      PROVE  NoRowYet'
  BY <1>14 DEF RotateKey, Starts, row, history
<1>15. ASSUME NEW o \in Ops, NEW k \in Keys, NEW n \in Limits, ChangeLimits(o, k, n)
      PROVE  NoRowYet'
  BY <1>15 DEF ChangeLimits, Starts, Exists, row, history
<1>16. ASSUME NEW o \in Ops, NEW k \in Keys, NEW route \in {"minute", "hour"}, UseKey(o, k, route)
      PROVE  NoRowYet'
  BY <1>16 DEF UseKey, row, history
<1>17. ASSUME MinutePasses PROVE NoRowYet'
  BY <1>17 DEF MinutePasses, row, history
<1>18. ASSUME UNCHANGED vars PROVE NoRowYet'
  BY <1>18 DEF vars, row, history
<1> QED
  BY <1>1, <1>2, <1>3, <1>4, <1>5, <1>6, <1>7, <1>8, <1>9, <1>10, <1>11, <1>12,
     <1>13, <1>14, <1>15, <1>16, <1>17, <1>18 DEF Next

LEMMA DeadStep ==
  ASSUME TypeOK, [Next]_vars, NoRowYet, DeadInv
  PROVE  DeadInv'
<1> OpsOK /\ RowsOK /\ OthersOK BY TypeParts
<1> USE OpsAreKeys DEF NoRowYet, DeadInv, OpsOK, RowsOK, OthersOK, NeedsKey
<1>1. ASSUME NEW o \in Ops, RequestKey(o)
      PROVE  DeadInv'
  BY <1>1 DEF RequestKey, Starts, row, history
<1>2. ASSUME NEW o \in Ops, CreateRow(o)
      PROVE  DeadInv'
  BY <1>2 DEF CreateRow, NewRow, Steps, row, history
<1>3. ASSUME NEW o \in Ops, PatchPrefix(o)
      PROVE  DeadInv'
  BY <1>3 DEF PatchPrefix, Steps, row, history
<1>4. ASSUME NEW o \in Ops, WriteRevoked(o)
      PROVE  DeadInv'
  BY <1>4 DEF WriteRevoked, Revoked, Unread, At, Steps, row, history
<1>5. ASSUME NEW o \in Ops, CheckCooldown(o)
      PROVE  DeadInv'
  BY <1>5 DEF CheckCooldown, Steps, row, history
<1>6. ASSUME NEW o \in Ops, Swap(o)
      PROVE  DeadInv'
  BY <1>6 DEF Swap, Unread, At, row, history
<1>7. ASSUME NEW o \in Ops, AuditRotation(o)
      PROVE  DeadInv'
  BY <1>7 DEF AuditRotation, Steps, row, history
<1>8. ASSUME NEW o \in Ops, Count(o)
      PROVE  DeadInv'
  BY <1>8 DEF Count, Steps, Verdict, row, history
<1>9. ASSUME NEW o \in Ops, Die(o)
      PROVE  DeadInv'
  BY <1>9 DEF Die, Steps, row, history
<1>10. ASSUME NEW o \in Ops, NEW n \in Limits, Issue(o, n)
      PROVE  DeadInv'
  BY <1>10 DEF Issue, Steps, At, row, history
<1>11. ASSUME NEW o \in Ops, NEW k \in Keys, Approve(o, k)
      PROVE  DeadInv'
  BY <1>11 DEF Approve, Starts, MayApprove, Exists, row, history
<1>12. ASSUME NEW o \in Ops, NEW k \in Keys, RevokeKey(o, k)
      PROVE  DeadInv'
  BY <1>12 DEF RevokeKey, Starts, Revoked, Unread, At, Exists, row, history
<1>13. ASSUME NEW o \in Ops, NEW k \in Keys, RevokeOwnKey(o, k)
      PROVE  DeadInv'
  BY <1>13 DEF RevokeOwnKey, Starts, Exists, row, history
<1>14. ASSUME NEW o \in Ops, NEW k \in Keys, RotateKey(o, k)
      PROVE  DeadInv'
  BY <1>14 DEF RotateKey, Starts, row, history
<1>15. ASSUME NEW o \in Ops, NEW k \in Keys, NEW n \in Limits, ChangeLimits(o, k, n)
      PROVE  DeadInv'
  BY <1>15 DEF ChangeLimits, Starts, Exists, row, history
<1>16. ASSUME NEW o \in Ops, NEW k \in Keys, NEW route \in {"minute", "hour"}, UseKey(o, k, route)
      PROVE  DeadInv'
  BY <1>16 DEF UseKey, row, history
<1>17. ASSUME MinutePasses PROVE DeadInv'
  BY <1>17 DEF MinutePasses, row, history
<1>18. ASSUME UNCHANGED vars PROVE DeadInv'
  BY <1>18 DEF vars, row, history
<1> QED
  BY <1>1, <1>2, <1>3, <1>4, <1>5, <1>6, <1>7, <1>8, <1>9, <1>10, <1>11, <1>12,
     <1>13, <1>14, <1>15, <1>16, <1>17, <1>18 DEF Next

LEMMA PatchStep ==
  ASSUME TypeOK, [Next]_vars, PatchInv
  PROVE  PatchInv'
<1> OpsOK /\ RowsOK /\ OthersOK BY TypeParts
<1> USE OpsAreKeys DEF PatchInv, OpsOK, RowsOK, OthersOK, NeedsKey
<1>1. ASSUME NEW o \in Ops, RequestKey(o)
      PROVE  PatchInv'
  BY <1>1 DEF RequestKey, Starts, row, history
<1>2. ASSUME NEW o \in Ops, CreateRow(o)
      PROVE  PatchInv'
  BY <1>2 DEF CreateRow, NewRow, Steps, row, history
<1>3. ASSUME NEW o \in Ops, PatchPrefix(o)
      PROVE  PatchInv'
  BY <1>3 DEF PatchPrefix, Steps, row, history
<1>4. ASSUME NEW o \in Ops, WriteRevoked(o)
      PROVE  PatchInv'
  BY <1>4 DEF WriteRevoked, Revoked, Unread, At, Steps, row, history
<1>5. ASSUME NEW o \in Ops, CheckCooldown(o)
      PROVE  PatchInv'
  BY <1>5 DEF CheckCooldown, Steps, row, history
<1>6. ASSUME NEW o \in Ops, Swap(o)
      PROVE  PatchInv'
  BY <1>6 DEF Swap, Unread, At, row, history
<1>7. ASSUME NEW o \in Ops, AuditRotation(o)
      PROVE  PatchInv'
  BY <1>7 DEF AuditRotation, Steps, row, history
<1>8. ASSUME NEW o \in Ops, Count(o)
      PROVE  PatchInv'
  BY <1>8 DEF Count, Steps, Verdict, row, history
<1>9. ASSUME NEW o \in Ops, Die(o)
      PROVE  PatchInv'
  BY <1>9 DEF Die, Steps, row, history
<1>10. ASSUME NEW o \in Ops, NEW n \in Limits, Issue(o, n)
      PROVE  PatchInv'
  BY <1>10 DEF Issue, Steps, At, row, history
<1>11. ASSUME NEW o \in Ops, NEW k \in Keys, Approve(o, k)
      PROVE  PatchInv'
  BY <1>11 DEF Approve, Starts, MayApprove, Exists, row, history
<1>12. ASSUME NEW o \in Ops, NEW k \in Keys, RevokeKey(o, k)
      PROVE  PatchInv'
  BY <1>12 DEF RevokeKey, Starts, Revoked, Unread, At, Exists, row, history
<1>13. ASSUME NEW o \in Ops, NEW k \in Keys, RevokeOwnKey(o, k)
      PROVE  PatchInv'
  BY <1>13 DEF RevokeOwnKey, Starts, Exists, row, history
<1>14. ASSUME NEW o \in Ops, NEW k \in Keys, RotateKey(o, k)
      PROVE  PatchInv'
  BY <1>14 DEF RotateKey, Starts, row, history
<1>15. ASSUME NEW o \in Ops, NEW k \in Keys, NEW n \in Limits, ChangeLimits(o, k, n)
      PROVE  PatchInv'
  BY <1>15 DEF ChangeLimits, Starts, Exists, row, history
<1>16. ASSUME NEW o \in Ops, NEW k \in Keys, NEW route \in {"minute", "hour"}, UseKey(o, k, route)
      PROVE  PatchInv'
  BY <1>16 DEF UseKey, row, history
<1>17. ASSUME MinutePasses PROVE PatchInv'
  BY <1>17 DEF MinutePasses, row, history
<1>18. ASSUME UNCHANGED vars PROVE PatchInv'
  BY <1>18 DEF vars, row, history
<1> QED
  BY <1>1, <1>2, <1>3, <1>4, <1>5, <1>6, <1>7, <1>8, <1>9, <1>10, <1>11, <1>12,
     <1>13, <1>14, <1>15, <1>16, <1>17, <1>18 DEF Next

LEMMA ShownStep ==
  ASSUME TypeOK, [Next]_vars, PatchInv, NoRowYet, ShownIsStored
  PROVE  ShownIsStored'
<1> OpsOK /\ RowsOK /\ OthersOK BY TypeParts
<1> USE OpsAreKeys DEF PatchInv, NoRowYet, ShownIsStored, OpsOK, RowsOK, OthersOK, NeedsKey
<1>1. ASSUME NEW o \in Ops, RequestKey(o)
      PROVE  ShownIsStored'
  BY <1>1 DEF RequestKey, Starts, row, history
<1>2. ASSUME NEW o \in Ops, CreateRow(o)
      PROVE  ShownIsStored'
  BY <1>2 DEF CreateRow, NewRow, Steps, row, history
<1>3. ASSUME NEW o \in Ops, PatchPrefix(o)
      PROVE  ShownIsStored'
  BY <1>3 DEF PatchPrefix, Steps, row, history
<1>4. ASSUME NEW o \in Ops, WriteRevoked(o)
      PROVE  ShownIsStored'
  BY <1>4 DEF WriteRevoked, Revoked, Unread, At, Steps, row, history
<1>5. ASSUME NEW o \in Ops, CheckCooldown(o)
      PROVE  ShownIsStored'
  BY <1>5 DEF CheckCooldown, Steps, row, history
<1>6. ASSUME NEW o \in Ops, Swap(o)
      PROVE  ShownIsStored'
  BY <1>6 DEF Swap, Unread, At, row, history
<1>7. ASSUME NEW o \in Ops, AuditRotation(o)
      PROVE  ShownIsStored'
  BY <1>7 DEF AuditRotation, Steps, row, history
<1>8. ASSUME NEW o \in Ops, Count(o)
      PROVE  ShownIsStored'
  BY <1>8 DEF Count, Steps, Verdict, row, history
<1>9. ASSUME NEW o \in Ops, Die(o)
      PROVE  ShownIsStored'
  BY <1>9 DEF Die, Steps, row, history
<1>10. ASSUME NEW o \in Ops, NEW n \in Limits, Issue(o, n)
      PROVE  ShownIsStored'
  BY <1>10 DEF Issue, Steps, At, row, history
<1>11. ASSUME NEW o \in Ops, NEW k \in Keys, Approve(o, k)
      PROVE  ShownIsStored'
  BY <1>11 DEF Approve, Starts, MayApprove, Exists, row, history
<1>12. ASSUME NEW o \in Ops, NEW k \in Keys, RevokeKey(o, k)
      PROVE  ShownIsStored'
  BY <1>12 DEF RevokeKey, Starts, Revoked, Unread, At, Exists, row, history
<1>13. ASSUME NEW o \in Ops, NEW k \in Keys, RevokeOwnKey(o, k)
      PROVE  ShownIsStored'
  BY <1>13 DEF RevokeOwnKey, Starts, Exists, row, history
<1>14. ASSUME NEW o \in Ops, NEW k \in Keys, RotateKey(o, k)
      PROVE  ShownIsStored'
  BY <1>14 DEF RotateKey, Starts, row, history
<1>15. ASSUME NEW o \in Ops, NEW k \in Keys, NEW n \in Limits, ChangeLimits(o, k, n)
      PROVE  ShownIsStored'
  BY <1>15 DEF ChangeLimits, Starts, Exists, row, history
<1>16. ASSUME NEW o \in Ops, NEW k \in Keys, NEW route \in {"minute", "hour"}, UseKey(o, k, route)
      PROVE  ShownIsStored'
  BY <1>16 DEF UseKey, row, history
<1>17. ASSUME MinutePasses PROVE ShownIsStored'
  BY <1>17 DEF MinutePasses, row, history
<1>18. ASSUME UNCHANGED vars PROVE ShownIsStored'
  BY <1>18 DEF vars, row, history
<1> QED
  BY <1>1, <1>2, <1>3, <1>4, <1>5, <1>6, <1>7, <1>8, <1>9, <1>10, <1>11, <1>12,
     <1>13, <1>14, <1>15, <1>16, <1>17, <1>18 DEF Next

LEMMA KindStep ==
  ASSUME TypeOK, [Next]_vars, KindInv
  PROVE  KindInv'
<1> OpsOK /\ RowsOK /\ OthersOK BY TypeParts
<1> USE OpsAreKeys DEF KindInv, OpsOK, RowsOK, NeedsKey
<1>1. ASSUME NEW o \in Ops, RequestKey(o)
      PROVE  KindInv'
  BY <1>1 DEF RequestKey, Starts, row, history
<1>2. ASSUME NEW o \in Ops, CreateRow(o)
      PROVE  KindInv'
  BY <1>2 DEF CreateRow, NewRow, Steps, row, history
<1>3. ASSUME NEW o \in Ops, PatchPrefix(o)
      PROVE  KindInv'
  BY <1>3 DEF PatchPrefix, Steps, row, history
<1>4. ASSUME NEW o \in Ops, WriteRevoked(o)
      PROVE  KindInv'
  BY <1>4 DEF WriteRevoked, Revoked, Unread, At, Steps, row, history
<1>5. ASSUME NEW o \in Ops, CheckCooldown(o)
      PROVE  KindInv'
  BY <1>5 DEF CheckCooldown, Steps, row, history
<1>6. ASSUME NEW o \in Ops, Swap(o)
      PROVE  KindInv'
  BY <1>6 DEF Swap, Unread, At, row, history
<1>7. ASSUME NEW o \in Ops, AuditRotation(o)
      PROVE  KindInv'
  BY <1>7 DEF AuditRotation, Steps, row, history
<1>8. ASSUME NEW o \in Ops, Count(o)
      PROVE  KindInv'
  BY <1>8 DEF Count, Steps, Verdict, row, history
<1>9. ASSUME NEW o \in Ops, Die(o)
      PROVE  KindInv'
  BY <1>9 DEF Die, Steps, row, history
<1>10. ASSUME NEW o \in Ops, NEW n \in Limits, Issue(o, n)
      PROVE  KindInv'
  BY <1>10 DEF Issue, Steps, At, row, history
<1>11. ASSUME NEW o \in Ops, NEW k \in Keys, Approve(o, k)
      PROVE  KindInv'
  BY <1>11 DEF Approve, Starts, MayApprove, Exists, row, history
<1>12. ASSUME NEW o \in Ops, NEW k \in Keys, RevokeKey(o, k)
      PROVE  KindInv'
  BY <1>12 DEF RevokeKey, Starts, Revoked, Unread, At, Exists, row, history
<1>13. ASSUME NEW o \in Ops, NEW k \in Keys, RevokeOwnKey(o, k)
      PROVE  KindInv'
  BY <1>13 DEF RevokeOwnKey, Starts, Exists, row, history
<1>14. ASSUME NEW o \in Ops, NEW k \in Keys, RotateKey(o, k)
      PROVE  KindInv'
  BY <1>14 DEF RotateKey, Starts, row, history
<1>15. ASSUME NEW o \in Ops, NEW k \in Keys, NEW n \in Limits, ChangeLimits(o, k, n)
      PROVE  KindInv'
  BY <1>15 DEF ChangeLimits, Starts, Exists, row, history
<1>16. ASSUME NEW o \in Ops, NEW k \in Keys, NEW route \in {"minute", "hour"}, UseKey(o, k, route)
      PROVE  KindInv'
  BY <1>16 DEF UseKey, row, history
<1>17. ASSUME MinutePasses PROVE KindInv'
  BY <1>17 DEF MinutePasses, row, history
<1>18. ASSUME UNCHANGED vars PROVE KindInv'
  BY <1>18 DEF vars, row, history
<1> QED
  BY <1>1, <1>2, <1>3, <1>4, <1>5, <1>6, <1>7, <1>8, <1>9, <1>10, <1>11, <1>12,
     <1>13, <1>14, <1>15, <1>16, <1>17, <1>18 DEF Next

LEMMA AskedStep ==
  ASSUME TypeOK, [Next]_vars, NoRowYet, KindInv, OneAsked
  PROVE  OneAsked'
<1> OpsOK /\ RowsOK /\ OthersOK BY TypeParts
<1> USE OpsAreKeys DEF NoRowYet, KindInv, OneAsked, Asked, OpsOK, RowsOK, OthersOK, NeedsKey
<1>1. ASSUME NEW o \in Ops, RequestKey(o)
      PROVE  OneAsked'
  BY ZenonT(40), <1>1 DEF RequestKey, MayRequest, Pending, Starts, At, row, history
<1>2. ASSUME NEW o \in Ops, CreateRow(o)
      PROVE  OneAsked'
  BY <1>2 DEF CreateRow, NewRow, Steps, row, history
<1>3. ASSUME NEW o \in Ops, PatchPrefix(o)
      PROVE  OneAsked'
  BY <1>3 DEF PatchPrefix, Steps, row, history
<1>4. ASSUME NEW o \in Ops, WriteRevoked(o)
      PROVE  OneAsked'
  BY <1>4 DEF WriteRevoked, Revoked, Unread, At, Steps, row, history
<1>5. ASSUME NEW o \in Ops, CheckCooldown(o)
      PROVE  OneAsked'
  BY <1>5 DEF CheckCooldown, Steps, row, history
<1>6. ASSUME NEW o \in Ops, Swap(o)
      PROVE  OneAsked'
  BY SMTT(20), <1>6 DEF Swap, Unread, At, row, history
<1>7. ASSUME NEW o \in Ops, AuditRotation(o)
      PROVE  OneAsked'
  BY <1>7 DEF AuditRotation, Steps, row, history
<1>8. ASSUME NEW o \in Ops, Count(o)
      PROVE  OneAsked'
  BY <1>8 DEF Count, Steps, Verdict, row, history
<1>9. ASSUME NEW o \in Ops, Die(o)
      PROVE  OneAsked'
  BY <1>9 DEF Die, Steps, row, history
<1>10. ASSUME NEW o \in Ops, NEW n \in Limits, Issue(o, n)
      PROVE  OneAsked'
  BY <1>10 DEF Issue, Steps, At, row, history
<1>11. ASSUME NEW o \in Ops, NEW k \in Keys, Approve(o, k)
      PROVE  OneAsked'
  BY <1>11 DEF Approve, Starts, MayApprove, Exists, row, history
<1>12. ASSUME NEW o \in Ops, NEW k \in Keys, RevokeKey(o, k)
      PROVE  OneAsked'
  BY <1>12 DEF RevokeKey, Starts, Revoked, Unread, At, Exists, row, history
<1>13. ASSUME NEW o \in Ops, NEW k \in Keys, RevokeOwnKey(o, k)
      PROVE  OneAsked'
  BY <1>13 DEF RevokeOwnKey, Starts, Exists, row, history
<1>14. ASSUME NEW o \in Ops, NEW k \in Keys, RotateKey(o, k)
      PROVE  OneAsked'
  BY <1>14 DEF RotateKey, Starts, row, history
<1>15. ASSUME NEW o \in Ops, NEW k \in Keys, NEW n \in Limits, ChangeLimits(o, k, n)
      PROVE  OneAsked'
  BY <1>15 DEF ChangeLimits, Starts, Exists, row, history
<1>16. ASSUME NEW o \in Ops, NEW k \in Keys, NEW route \in {"minute", "hour"}, UseKey(o, k, route)
      PROVE  OneAsked'
  BY <1>16 DEF UseKey, row, history
<1>17. ASSUME MinutePasses PROVE OneAsked'
  BY <1>17 DEF MinutePasses, row, history
<1>18. ASSUME UNCHANGED vars PROVE OneAsked'
  BY <1>18 DEF vars, row, history
<1> QED
  BY <1>1, <1>2, <1>3, <1>4, <1>5, <1>6, <1>7, <1>8, <1>9, <1>10, <1>11, <1>12,
     <1>13, <1>14, <1>15, <1>16, <1>17, <1>18 DEF Next

-----------------------------------------------------------------------------
(* The day between two rotations.                                          *)

\* Where a rotation can stand, and where it has a row.
RotationSteps ==
  \A o \in Ops : op[o].kind = "rotate" =>
    /\ op[o].pc \in {"cooldown", "refused", "swap", "patch", "audit", "done", "died"}
    /\ op[o].pc = "refused" => status[o] = "none"
    /\ op[o].pc \in {"patch", "audit", "done"} => status[o] # "none"

Past(o) == op[o].kind = "rotate" /\ (op[o].pc \in {"swap", "patch", "audit"} \/ status[o] # "none")
Audited(o) == op[o].kind = "rotate" /\ op[o].pc = "done"

\* The audit row of a rotation is younger than its swap.
AuditLater ==
  \A o \in Ops : /\ Swapped(o) => op[o].at <= now
                 /\ Audited(o) => \E t \in rotated : op[o].at <= t

\* Of two rotations past their checks one has its audit row...
OneAudited ==
  \A o, p \in Ops \ rushed : o # p /\ Past(o) /\ Past(p) => Audited(o) \/ Audited(p)

\* ...which the check of the other has seen...
AuditSeen ==
  \A o, p \in Ops \ rushed :
    o # p /\ Audited(o) /\ op[p].pc = "swap" => op[o].at + Day < now

\* ...so that their swaps are a day apart.
DayApart ==
  \A o, p \in Ops \ rushed :
    o # p /\ Swapped(o) /\ Swapped(p)
      => op[o].at + Day < op[p].at \/ op[p].at + Day < op[o].at

LEMMA RotationStepsStep ==
  ASSUME TypeOK, [Next]_vars, NoRowYet, RotationSteps
  PROVE  RotationSteps'
<1> OpsOK /\ RowsOK /\ OthersOK BY TypeParts
<1> USE OpsAreKeys DEF NoRowYet, RotationSteps, OpsOK, RowsOK, NeedsKey
<1>1. ASSUME NEW o \in Ops, RequestKey(o)
      PROVE  RotationSteps'
  BY <1>1 DEF RequestKey, Starts, row, history
<1>2. ASSUME NEW o \in Ops, CreateRow(o)
      PROVE  RotationSteps'
  BY <1>2 DEF CreateRow, NewRow, Steps, row, history
<1>3. ASSUME NEW o \in Ops, PatchPrefix(o)
      PROVE  RotationSteps'
  BY <1>3 DEF PatchPrefix, Steps, row, history
<1>4. ASSUME NEW o \in Ops, WriteRevoked(o)
      PROVE  RotationSteps'
  BY <1>4 DEF WriteRevoked, Revoked, Unread, At, Steps, row, history
<1>5. ASSUME NEW o \in Ops, CheckCooldown(o)
      PROVE  RotationSteps'
  BY <1>5 DEF CheckCooldown, Steps, row, history
<1>6. ASSUME NEW o \in Ops, Swap(o)
      PROVE  RotationSteps'
  BY <1>6 DEF Swap, Unread, At, row, history
<1>7. ASSUME NEW o \in Ops, AuditRotation(o)
      PROVE  RotationSteps'
  BY <1>7 DEF AuditRotation, Steps, row, history
<1>8. ASSUME NEW o \in Ops, Count(o)
      PROVE  RotationSteps'
  BY <1>8 DEF Count, Steps, Verdict, row, history
<1>9. ASSUME NEW o \in Ops, Die(o)
      PROVE  RotationSteps'
  BY <1>9 DEF Die, Steps, row, history
<1>10. ASSUME NEW o \in Ops, NEW n \in Limits, Issue(o, n)
      PROVE  RotationSteps'
  BY <1>10 DEF Issue, Steps, At, row, history
<1>11. ASSUME NEW o \in Ops, NEW k \in Keys, Approve(o, k)
      PROVE  RotationSteps'
  BY <1>11 DEF Approve, Starts, MayApprove, Exists, row, history
<1>12. ASSUME NEW o \in Ops, NEW k \in Keys, RevokeKey(o, k)
      PROVE  RotationSteps'
  BY <1>12 DEF RevokeKey, Starts, Revoked, Unread, At, Exists, row, history
<1>13. ASSUME NEW o \in Ops, NEW k \in Keys, RevokeOwnKey(o, k)
      PROVE  RotationSteps'
  BY <1>13 DEF RevokeOwnKey, Starts, Exists, row, history
<1>14. ASSUME NEW o \in Ops, NEW k \in Keys, RotateKey(o, k)
      PROVE  RotationSteps'
  BY <1>14 DEF RotateKey, Starts, row, history
<1>15. ASSUME NEW o \in Ops, NEW k \in Keys, NEW n \in Limits, ChangeLimits(o, k, n)
      PROVE  RotationSteps'
  BY <1>15 DEF ChangeLimits, Starts, Exists, row, history
<1>16. ASSUME NEW o \in Ops, NEW k \in Keys, NEW route \in {"minute", "hour"}, UseKey(o, k, route)
      PROVE  RotationSteps'
  BY <1>16 DEF UseKey, row, history
<1>17. ASSUME MinutePasses PROVE RotationSteps'
  BY <1>17 DEF MinutePasses, row, history
<1>18. ASSUME UNCHANGED vars PROVE RotationSteps'
  BY <1>18 DEF vars, row, history
<1> QED
  BY <1>1, <1>2, <1>3, <1>4, <1>5, <1>6, <1>7, <1>8, <1>9, <1>10, <1>11, <1>12,
     <1>13, <1>14, <1>15, <1>16, <1>17, <1>18 DEF Next

LEMMA AuditLaterStep ==
  ASSUME TypeOK, [Next]_vars, NoRowYet, KindInv, RotationSteps, AuditLater
  PROVE  AuditLater'
<1> OpsOK /\ RowsOK /\ OthersOK BY TypeParts
<1> USE OpsAreKeys DEF NoRowYet, KindInv, RotationSteps, AuditLater, Swapped, Audited, OpRec, OpsOK, RowsOK, OthersOK, NeedsKey
<1>1. ASSUME NEW o \in Ops, RequestKey(o)
      PROVE  AuditLater'
  BY <1>1 DEF RequestKey, Starts, row, history
<1>2. ASSUME NEW o \in Ops, CreateRow(o)
      PROVE  AuditLater'
  BY SMTT(20), <1>2 DEF CreateRow, NewRow, Steps, row, history
<1>3. ASSUME NEW o \in Ops, PatchPrefix(o)
      PROVE  AuditLater'
  BY <1>3 DEF PatchPrefix, Steps, row, history
<1>4. ASSUME NEW o \in Ops, WriteRevoked(o)
      PROVE  AuditLater'
  BY <1>4 DEF WriteRevoked, Revoked, Unread, At, Steps, row, history
<1>5. ASSUME NEW o \in Ops, CheckCooldown(o)
      PROVE  AuditLater'
  BY <1>5 DEF CheckCooldown, Steps, row, history
<1>6. ASSUME NEW o \in Ops, Swap(o)
      PROVE  AuditLater'
  BY <1>6 DEF Swap, Unread, At, row, history
<1>7. ASSUME NEW o \in Ops, AuditRotation(o)
      PROVE  AuditLater'
  BY <1>7 DEF AuditRotation, Steps, row, history
<1>8. ASSUME NEW o \in Ops, Count(o)
      PROVE  AuditLater'
  BY <1>8 DEF Count, Steps, Verdict, row, history
<1>9. ASSUME NEW o \in Ops, Die(o)
      PROVE  AuditLater'
  BY <1>9 DEF Die, Steps, row, history
<1>10. ASSUME NEW o \in Ops, NEW n \in Limits, Issue(o, n)
      PROVE  AuditLater'
  BY <1>10 DEF Issue, Steps, At, row, history
<1>11. ASSUME NEW o \in Ops, NEW k \in Keys, Approve(o, k)
      PROVE  AuditLater'
  BY <1>11 DEF Approve, Starts, MayApprove, Exists, row, history
<1>12. ASSUME NEW o \in Ops, NEW k \in Keys, RevokeKey(o, k)
      PROVE  AuditLater'
  BY <1>12 DEF RevokeKey, Starts, Revoked, Unread, At, Exists, row, history
<1>13. ASSUME NEW o \in Ops, NEW k \in Keys, RevokeOwnKey(o, k)
      PROVE  AuditLater'
  BY <1>13 DEF RevokeOwnKey, Starts, Exists, row, history
<1>14. ASSUME NEW o \in Ops, NEW k \in Keys, RotateKey(o, k)
      PROVE  AuditLater'
  BY <1>14 DEF RotateKey, Starts, row, history
<1>15. ASSUME NEW o \in Ops, NEW k \in Keys, NEW n \in Limits, ChangeLimits(o, k, n)
      PROVE  AuditLater'
  BY <1>15 DEF ChangeLimits, Starts, Exists, row, history
<1>16. ASSUME NEW o \in Ops, NEW k \in Keys, NEW route \in {"minute", "hour"}, UseKey(o, k, route)
      PROVE  AuditLater'
  BY <1>16 DEF UseKey, row, history
<1>17. ASSUME MinutePasses PROVE AuditLater'
  BY <1>17 DEF MinutePasses, row, history
<1>18. ASSUME UNCHANGED vars PROVE AuditLater'
  BY <1>18 DEF vars, row, history
<1> QED
  BY <1>1, <1>2, <1>3, <1>4, <1>5, <1>6, <1>7, <1>8, <1>9, <1>10, <1>11, <1>12,
     <1>13, <1>14, <1>15, <1>16, <1>17, <1>18 DEF Next

LEMMA OneAuditedStep ==
  ASSUME TypeOK, [Next]_vars, NoRowYet, KindInv, RotationSteps, OneAudited
  PROVE  OneAudited'
<1> OpsOK /\ RowsOK /\ OthersOK BY TypeParts
<1> USE OpsAreKeys DEF NoRowYet, KindInv, RotationSteps, OneAudited, Past, Audited, OpsOK, RowsOK, OthersOK, NeedsKey
<1>1. ASSUME NEW o \in Ops, RequestKey(o)
      PROVE  OneAudited'
  BY <1>1 DEF RequestKey, Starts, row, history
<1>2. ASSUME NEW o \in Ops, CreateRow(o)
      PROVE  OneAudited'
  BY <1>2 DEF CreateRow, NewRow, Steps, row, history
<1>3. ASSUME NEW o \in Ops, PatchPrefix(o)
      PROVE  OneAudited'
  BY <1>3 DEF PatchPrefix, Steps, row, history
<1>4. ASSUME NEW o \in Ops, WriteRevoked(o)
      PROVE  OneAudited'
  BY <1>4 DEF WriteRevoked, Revoked, Unread, At, Steps, row, history
<1>5. ASSUME NEW o \in Ops, CheckCooldown(o)
      PROVE  OneAudited'
  BY <1>5 DEF CheckCooldown, Unaudited, Exists, Steps, row, history
<1>6. ASSUME NEW o \in Ops, Swap(o)
      PROVE  OneAudited'
  BY <1>6 DEF Swap, Unread, At, row, history
<1>7. ASSUME NEW o \in Ops, AuditRotation(o)
      PROVE  OneAudited'
  BY <1>7 DEF AuditRotation, Steps, row, history
<1>8. ASSUME NEW o \in Ops, Count(o)
      PROVE  OneAudited'
  BY <1>8 DEF Count, Steps, Verdict, row, history
<1>9. ASSUME NEW o \in Ops, Die(o)
      PROVE  OneAudited'
  BY <1>9 DEF Die, Steps, row, history
<1>10. ASSUME NEW o \in Ops, NEW n \in Limits, Issue(o, n)
      PROVE  OneAudited'
  BY <1>10 DEF Issue, Steps, At, row, history
<1>11. ASSUME NEW o \in Ops, NEW k \in Keys, Approve(o, k)
      PROVE  OneAudited'
  BY <1>11 DEF Approve, Starts, MayApprove, Exists, row, history
<1>12. ASSUME NEW o \in Ops, NEW k \in Keys, RevokeKey(o, k)
      PROVE  OneAudited'
  BY <1>12 DEF RevokeKey, Starts, Revoked, Unread, At, Exists, row, history
<1>13. ASSUME NEW o \in Ops, NEW k \in Keys, RevokeOwnKey(o, k)
      PROVE  OneAudited'
  BY <1>13 DEF RevokeOwnKey, Starts, Exists, row, history
<1>14. ASSUME NEW o \in Ops, NEW k \in Keys, RotateKey(o, k)
      PROVE  OneAudited'
  BY <1>14 DEF RotateKey, Starts, row, history
<1>15. ASSUME NEW o \in Ops, NEW k \in Keys, NEW n \in Limits, ChangeLimits(o, k, n)
      PROVE  OneAudited'
  BY <1>15 DEF ChangeLimits, Starts, Exists, row, history
<1>16. ASSUME NEW o \in Ops, NEW k \in Keys, NEW route \in {"minute", "hour"}, UseKey(o, k, route)
      PROVE  OneAudited'
  BY <1>16 DEF UseKey, row, history
<1>17. ASSUME MinutePasses PROVE OneAudited'
  BY <1>17 DEF MinutePasses, row, history
<1>18. ASSUME UNCHANGED vars PROVE OneAudited'
  BY <1>18 DEF vars, row, history
<1> QED
  BY <1>1, <1>2, <1>3, <1>4, <1>5, <1>6, <1>7, <1>8, <1>9, <1>10, <1>11, <1>12,
     <1>13, <1>14, <1>15, <1>16, <1>17, <1>18 DEF Next

LEMMA AuditSeenStep ==
  ASSUME TypeOK, [Next]_vars, KindInv, RotationSteps, AuditLater, OneAudited, AuditSeen
  PROVE  AuditSeen'
<1> OpsOK /\ RowsOK /\ OthersOK BY TypeParts
<1> USE OpsAreKeys DEF KindInv, RotationSteps, AuditLater, OneAudited, AuditSeen, Past, Audited, OpsOK, RowsOK, OthersOK, NeedsKey
<1>1. ASSUME NEW o \in Ops, RequestKey(o)
      PROVE  AuditSeen'
  BY <1>1 DEF RequestKey, Starts, row, history
<1>2. ASSUME NEW o \in Ops, CreateRow(o)
      PROVE  AuditSeen'
  BY <1>2 DEF CreateRow, NewRow, Steps, row, history
<1>3. ASSUME NEW o \in Ops, PatchPrefix(o)
      PROVE  AuditSeen'
  BY <1>3 DEF PatchPrefix, Steps, row, history
<1>4. ASSUME NEW o \in Ops, WriteRevoked(o)
      PROVE  AuditSeen'
  BY <1>4 DEF WriteRevoked, Revoked, Unread, At, Steps, row, history
<1>5. ASSUME NEW o \in Ops, CheckCooldown(o)
      PROVE  AuditSeen'
  <2>1. SUFFICES ASSUME NEW p \in Ops \ rushed', NEW q \in Ops \ rushed', p # q,
                        Audited(p)', op'[q].pc = "swap"
                 PROVE  op'[p].at + Day < now'
    BY DEF AuditSeen
  <2>2. now' = now /\ rushed \subseteq rushed' /\ rotated' = rotated BY <1>5 DEF CheckCooldown
  <2>3. op'[p] = op[p] /\ Audited(p) BY <1>5, <2>1 DEF CheckCooldown, Steps
  <2>4. CASE q = o
    <3>1. ~Recently BY <1>5, <2>1, <2>4 DEF CheckCooldown, Steps
    <3>2. PICK t \in rotated : op[p].at <= t BY <2>3
    <3>3. t + Day < now BY <3>1, <3>2, KeysAssumption DEF Recently
    <3>4. op[p].at \in Nat /\ t \in Nat BY DEF OpRec
    <3> QED BY <2>2, <2>3, <3>2, <3>3, <3>4, KeysAssumption
  <2>5. CASE q # o
    <3>1. op[q].pc = "swap" BY <1>5, <2>1, <2>5 DEF CheckCooldown, Steps
    <3> QED BY <2>1, <2>2, <2>3, <3>1
  <2> QED BY <2>4, <2>5
<1>6. ASSUME NEW o \in Ops, Swap(o)
      PROVE  AuditSeen'
  BY <1>6 DEF Swap, Unread, At, row, history
<1>7. ASSUME NEW o \in Ops, AuditRotation(o)
      PROVE  AuditSeen'
  BY <1>7 DEF AuditRotation, Steps, row, history
<1>8. ASSUME NEW o \in Ops, Count(o)
      PROVE  AuditSeen'
  BY <1>8 DEF Count, Steps, Verdict, row, history
<1>9. ASSUME NEW o \in Ops, Die(o)
      PROVE  AuditSeen'
  BY <1>9 DEF Die, Steps, row, history
<1>10. ASSUME NEW o \in Ops, NEW n \in Limits, Issue(o, n)
      PROVE  AuditSeen'
  BY SMTT(20), <1>10 DEF Issue, Steps, At, row, history
<1>11. ASSUME NEW o \in Ops, NEW k \in Keys, Approve(o, k)
      PROVE  AuditSeen'
  BY <1>11 DEF Approve, Starts, MayApprove, Exists, row, history
<1>12. ASSUME NEW o \in Ops, NEW k \in Keys, RevokeKey(o, k)
      PROVE  AuditSeen'
  BY <1>12 DEF RevokeKey, Starts, Revoked, Unread, At, Exists, row, history
<1>13. ASSUME NEW o \in Ops, NEW k \in Keys, RevokeOwnKey(o, k)
      PROVE  AuditSeen'
  BY <1>13 DEF RevokeOwnKey, Starts, Exists, row, history
<1>14. ASSUME NEW o \in Ops, NEW k \in Keys, RotateKey(o, k)
      PROVE  AuditSeen'
  BY <1>14 DEF RotateKey, Starts, row, history
<1>15. ASSUME NEW o \in Ops, NEW k \in Keys, NEW n \in Limits, ChangeLimits(o, k, n)
      PROVE  AuditSeen'
  BY <1>15 DEF ChangeLimits, Starts, Exists, row, history
<1>16. ASSUME NEW o \in Ops, NEW k \in Keys, NEW route \in {"minute", "hour"}, UseKey(o, k, route)
      PROVE  AuditSeen'
  BY <1>16 DEF UseKey, row, history
<1>17. ASSUME MinutePasses PROVE AuditSeen'
  <2>1. op' = op /\ rushed' = rushed /\ now' = now + 1 BY <1>17 DEF MinutePasses, history
  <2>2. \A p \in Ops : op[p].at \in Nat BY DEF OpRec
  <2>3. \A p \in Ops : op[p].at + Day < now => op[p].at + Day < now + 1
    BY <2>2, KeysAssumption
  <2> QED BY <2>1, <2>3
<1>18. ASSUME UNCHANGED vars PROVE AuditSeen'
  BY <1>18 DEF vars, row, history
<1> QED
  BY <1>1, <1>2, <1>3, <1>4, <1>5, <1>6, <1>7, <1>8, <1>9, <1>10, <1>11, <1>12,
     <1>13, <1>14, <1>15, <1>16, <1>17, <1>18 DEF Next

LEMMA DayApartStep ==
  ASSUME TypeOK, [Next]_vars, NoRowYet, KindInv, RotationSteps, OneAudited, AuditSeen, DayApart
  PROVE  DayApart'
<1> OpsOK /\ RowsOK /\ OthersOK BY TypeParts
<1> USE OpsAreKeys DEF NoRowYet, KindInv, RotationSteps, OneAudited, AuditSeen, DayApart, Swapped, Past, Audited, OpsOK, RowsOK, OthersOK, NeedsKey
<1>1. ASSUME NEW o \in Ops, RequestKey(o)
      PROVE  DayApart'
  BY <1>1 DEF RequestKey, Starts, row, history
<1>2. ASSUME NEW o \in Ops, CreateRow(o)
      PROVE  DayApart'
  BY <1>2 DEF CreateRow, NewRow, Steps, row, history
<1>3. ASSUME NEW o \in Ops, PatchPrefix(o)
      PROVE  DayApart'
  BY <1>3 DEF PatchPrefix, Steps, row, history
<1>4. ASSUME NEW o \in Ops, WriteRevoked(o)
      PROVE  DayApart'
  BY <1>4 DEF WriteRevoked, Revoked, Unread, At, Steps, row, history
<1>5. ASSUME NEW o \in Ops, CheckCooldown(o)
      PROVE  DayApart'
  BY <1>5 DEF CheckCooldown, Steps, row, history
<1>6. ASSUME NEW o \in Ops, Swap(o)
      PROVE  DayApart'
  <2>1. \A p \in Ops \ {o} : op'[p] = op[p] /\ (Swapped(p)' => Swapped(p))
    BY <1>6 DEF Swap
  <2>2. /\ op[o].kind = "rotate" /\ op[o].pc = "swap" /\ op'[o].at = now
        /\ now' = now /\ rushed' = rushed
    BY <1>6 DEF Swap, history
  <2>3. ASSUME NEW p \in Ops \ rushed, p # o, o \notin rushed, Swapped(p)
        PROVE  op[p].at + Day < now
    BY <2>2, <2>3
  <2>4. SUFFICES ASSUME NEW p \in Ops \ rushed, NEW q \in Ops \ rushed, p # q,
                        Swapped(p)', Swapped(q)'
                 PROVE  op'[p].at + Day < op'[q].at \/ op'[q].at + Day < op'[p].at
    BY <2>2 DEF DayApart
  <2>5. CASE p = o BY <2>1, <2>2, <2>3, <2>4, <2>5
  <2>6. CASE q = o BY <2>1, <2>2, <2>3, <2>4, <2>6
  <2>7. CASE p # o /\ q # o BY <2>1, <2>4, <2>7
  <2> QED BY <2>5, <2>6, <2>7
<1>7. ASSUME NEW o \in Ops, AuditRotation(o)
      PROVE  DayApart'
  BY <1>7 DEF AuditRotation, Steps, row, history
<1>8. ASSUME NEW o \in Ops, Count(o)
      PROVE  DayApart'
  BY <1>8 DEF Count, Steps, Verdict, row, history
<1>9. ASSUME NEW o \in Ops, Die(o)
      PROVE  DayApart'
  BY <1>9 DEF Die, Steps, row, history
<1>10. ASSUME NEW o \in Ops, NEW n \in Limits, Issue(o, n)
      PROVE  DayApart'
  BY <1>10 DEF Issue, Steps, At, row, history
<1>11. ASSUME NEW o \in Ops, NEW k \in Keys, Approve(o, k)
      PROVE  DayApart'
  BY <1>11 DEF Approve, Starts, MayApprove, Exists, row, history
<1>12. ASSUME NEW o \in Ops, NEW k \in Keys, RevokeKey(o, k)
      PROVE  DayApart'
  BY <1>12 DEF RevokeKey, Starts, Revoked, Unread, At, Exists, row, history
<1>13. ASSUME NEW o \in Ops, NEW k \in Keys, RevokeOwnKey(o, k)
      PROVE  DayApart'
  BY <1>13 DEF RevokeOwnKey, Starts, Exists, row, history
<1>14. ASSUME NEW o \in Ops, NEW k \in Keys, RotateKey(o, k)
      PROVE  DayApart'
  BY <1>14 DEF RotateKey, Starts, row, history
<1>15. ASSUME NEW o \in Ops, NEW k \in Keys, NEW n \in Limits, ChangeLimits(o, k, n)
      PROVE  DayApart'
  BY <1>15 DEF ChangeLimits, Starts, Exists, row, history
<1>16. ASSUME NEW o \in Ops, NEW k \in Keys, NEW route \in {"minute", "hour"}, UseKey(o, k, route)
      PROVE  DayApart'
  BY <1>16 DEF UseKey, row, history
<1>17. ASSUME MinutePasses PROVE DayApart'
  BY <1>17 DEF MinutePasses, row, history
<1>18. ASSUME UNCHANGED vars PROVE DayApart'
  BY <1>18 DEF vars, row, history
<1> QED
  BY <1>1, <1>2, <1>3, <1>4, <1>5, <1>6, <1>7, <1>8, <1>9, <1>10, <1>11, <1>12,
     <1>13, <1>14, <1>15, <1>16, <1>17, <1>18 DEF Next

-----------------------------------------------------------------------------
(* The theorems.                                                           *)

IInv ==
  /\ TypeOK /\ NoRowYet /\ DeadInv /\ PatchInv /\ ShownIsStored /\ KindInv /\ OneAsked
  /\ RotationSteps /\ AuditLater /\ OneAudited /\ AuditSeen /\ DayApart

LEMMA InitInv == Init => IInv
<1> SUFFICES ASSUME Init PROVE IInv OBVIOUS
<1> USE OpsAreKeys, KeysAssumption DEF Init, Begin
<1>1. TypeOK BY InitType
<1>2. NoRowYet BY DEF NoRowYet
<1>3. DeadInv /\ PatchInv /\ ShownIsStored BY DEF DeadInv, PatchInv, ShownIsStored
<1>4. KindInv /\ OneAsked BY DEF KindInv, OneAsked, Asked
<1>5. RotationSteps /\ AuditLater BY DEF RotationSteps, AuditLater, Swapped, Audited
<1>6. OneAudited /\ AuditSeen /\ DayApart
  BY DEF OneAudited, AuditSeen, DayApart, Past, Swapped, Audited
<1> QED BY <1>1, <1>2, <1>3, <1>4, <1>5, <1>6 DEF IInv

LEMMA InvStep == IInv /\ [Next]_vars => IInv'
<1> SUFFICES ASSUME IInv, [Next]_vars PROVE IInv' OBVIOUS
<1> USE DEF IInv
<1>1. TypeOK' BY NextType
<1>2. NoRowYet' BY NoRowYetStep
<1>3. DeadInv' BY DeadStep
<1>4. PatchInv' BY PatchStep
<1>5. ShownIsStored' BY ShownStep
<1>6. KindInv' BY KindStep
<1>7. OneAsked' BY AskedStep
<1>8. RotationSteps' BY RotationStepsStep
<1>9. AuditLater' BY AuditLaterStep
<1>10. OneAudited' BY OneAuditedStep
<1>11. AuditSeen' BY AuditSeenStep
<1>12. DayApart' BY DayApartStep
<1> QED BY <1>1, <1>2, <1>3, <1>4, <1>5, <1>6, <1>7, <1>8, <1>9, <1>10, <1>11, <1>12

LEMMA Invariance == Spec => []IInv
BY InitInv, InvStep, PTL DEF Spec

\* A key revoked while no approval of it is under way is never let in again.
THEOREM RevokedForEver == Spec => []RevokedStays
<1>1. IInv => RevokedStays BY DEF IInv, DeadInv, RevokedStays
<1> QED BY <1>1, Invariance, PTL

\* One request of a user waits for an admin, unless two were checked at once.
THEOREM OneRequestWaits == Spec => []OnePending
<1>1. ASSUME IInv PROVE OnePending
  <2> DEFINE S == {o \in Ops : op[o].kind = "request" /\ status[o] = "pending"}
  <2>1. SUFFICES ASSUME ~stacked PROVE Cardinality(S) <= 1
    BY DEF OnePending
  <2>2. \A o, p \in S : o = p BY <1>1, <2>1 DEF IInv, OneAsked, Asked
  <2>3. CASE S = {} BY <2>3, FS_EmptySet
  <2>4. CASE S # {}
    <3>1. PICK o \in S : TRUE BY <2>4
    <3>2. S = {o} BY <2>2, <3>1
    <3>3. Cardinality(S) = 1 BY <3>2, FS_Singleton
    <3> QED BY <3>3
  <2> QED BY <2>3, <2>4
<1> QED BY <1>1, Invariance, PTL

\* What the pages show of an active key belongs to the key that works, unless it
\* was approved between the two writes that created it.
THEOREM ShownWorks == Spec => []ShownIsStored
<1>1. IInv => ShownIsStored BY DEF IInv
<1> QED BY <1>1, Invariance, PTL

\* Two rotations are a day apart, unless one was checked before the other's audit
\* row was there.
THEOREM RotationsApart == Spec => []CooldownHolds
<1>1. ASSUME IInv PROVE CooldownHolds
  <2>1. SUFFICES ASSUME NEW o \in Ops, NEW p \in Ops \ {o}, Swapped(o), Swapped(p),
                        op[o].at <= op[p].at, {o, p} \cap rushed = {}
                 PROVE  op[o].at + Day < op[p].at
    BY DEF CooldownHolds
  <2>2. op[o].at \in Nat /\ op[p].at \in Nat /\ Day \in Nat
    BY <1>1, KeysAssumption DEF IInv, TypeOK
  <2>3. \/ op[o].at + Day < op[p].at
        \/ op[p].at + Day < op[o].at
    BY <1>1, <2>1 DEF IInv, DayApart
  <2> QED BY <2>1, <2>2, <2>3
<1> QED BY <1>1, Invariance, PTL

-----------------------------------------------------------------------------
(* The rate limit.                                                         *)

\* The requests of a key let in in the window that starts at s, whatever its length.
Served(k, s) == {o \in Ops : op[o].pc = "admitted" /\ op[o].key = k /\ op[o].start = s}

\* The row of a window that no start has interrupted counts all it let in; a window
\* that never had the row has let nobody in.
Counted(k, s) ==
  <<k, s>> \notin again =>
    IF bucket[k].start = s THEN <<k, s>> \notin gone /\ Cardinality(Served(k, s)) <= bucket[k].count
    ELSE <<k, s>> \notin gone => Served(k, s) = {}

ServedInv ==
  /\ \A k \in Keys, s \in Nat : IsFiniteSet(Served(k, s)) /\ Counted(k, s)
  /\ \A o \in Ops : op[o].pc = "admitted" => op[o].key \in Keys
  /\ LimitHolds

\* Only a count touches the buckets or lets a request in, and who is in stays in.
LEMMA OnlyCountServes ==
  ASSUME TypeOK, [Next]_vars, \A o \in Ops : ~Count(o)
  PROVE  /\ UNCHANGED <<bucket, gone, again>>
         /\ \A o \in Ops : \/ op'[o] = op[o]
                           \/ op[o].pc # "admitted" /\ op'[o].pc # "admitted"
<1> OpsOK BY TypeParts
<1>1. ASSUME NEW o \in Ops, NEW r, op' = [op EXCEPT ![o] = r],
             op[o].pc # "admitted", r.pc # "admitted"
      PROVE  \A p \in Ops : op'[p] = op[p] \/ (op[p].pc # "admitted" /\ op'[p].pc # "admitted")
  BY <1>1 DEF OpsOK
<1>a. ASSUME NEW o \in Ops, NEW pc, Steps(o, pc), op[o].pc # "admitted", pc # "admitted"
      PROVE  \A p \in Ops : op'[p] = op[p] \/ (op[p].pc # "admitted" /\ op'[p].pc # "admitted")
  <2>1. op' = [op EXCEPT ![o] = [op[o] EXCEPT !.pc = pc]] BY <1>a DEF Steps, OpsOK
  <2>2. [op[o] EXCEPT !.pc = pc].pc = pc BY DEF OpsOK, OpRec
  <2> QED BY <1>1, <1>a, <2>1, <2>2
<1>b. ASSUME NEW o \in Ops, NEW kind, NEW pc, NEW k, Starts(o, kind, pc, k), pc # "admitted"
      PROVE  \A p \in Ops : op'[p] = op[p] \/ (op[p].pc # "admitted" /\ op'[p].pc # "admitted")
  <2> DEFINE r == [op[o] EXCEPT !.kind = kind, !.pc = pc, !.key = k]
  <2>1. op' = [op EXCEPT ![o] = r] /\ op[o].pc = "idle" BY <1>b DEF Starts, OpsOK
  <2>2. r.pc = pc BY DEF OpsOK, OpRec
  <2> HIDE DEF r
  <2> QED BY <1>1, <1>b, <2>1, <2>2
<1> DEFINE Same == /\ UNCHANGED <<bucket, gone, again>>
                   /\ \A p \in Ops : op'[p] = op[p] \/ (op[p].pc # "admitted" /\ op'[p].pc # "admitted")
<1>2. ASSUME NEW o \in Ops, RequestKey(o) \/ CreateRow(o) \/ PatchPrefix(o) PROVE Same
  <2>1. UNCHANGED <<bucket, gone, again>> BY <1>2 DEF RequestKey, CreateRow, PatchPrefix, history
  <2>2. CASE RequestKey(o) BY <1>b, <2>1, <2>2 DEF RequestKey
  <2>3. CASE CreateRow(o) BY <1>a, <2>1, <2>3 DEF CreateRow
  <2>4. CASE PatchPrefix(o) BY <1>a, <2>1, <2>4 DEF PatchPrefix
  <2> QED BY <1>2, <2>2, <2>3, <2>4
<1>3. ASSUME NEW o \in Ops, WriteRevoked(o) \/ CheckCooldown(o) \/ AuditRotation(o) \/ Die(o) PROVE Same
  <2>1. UNCHANGED <<bucket, gone, again>>
    BY <1>3 DEF WriteRevoked, CheckCooldown, AuditRotation, Die, history
  <2>2. CASE WriteRevoked(o) BY <1>a, <2>1, <2>2 DEF WriteRevoked
  <2>3. CASE CheckCooldown(o) BY <1>a, <2>1, <2>3 DEF CheckCooldown
  <2>4. CASE AuditRotation(o) BY <1>a, <2>1, <2>4 DEF AuditRotation
  <2>5. CASE Die(o) BY <1>a, <2>1, <2>5 DEF Die
  <2> QED BY <1>3, <2>2, <2>3, <2>4, <2>5
<1>4. ASSUME NEW o \in Ops, Swap(o) PROVE Same
  <2> DEFINE r == [op[o] EXCEPT !.pc = "patch", !.at = now]
  <2>1. op' = [op EXCEPT ![o] = r] /\ op[o].pc = "swap" BY <1>4 DEF Swap, OpsOK
  <2>2. r.pc = "patch" BY DEF OpsOK, OpRec
  <2>3. UNCHANGED <<bucket, gone, again>> BY <1>4 DEF Swap
  <2> HIDE DEF r
  <2> QED BY <1>1, <2>1, <2>2, <2>3
<1>5. ASSUME NEW o \in Ops, NEW n \in Limits, Issue(o, n) PROVE Same
  BY <1>5, <1>a DEF Issue
<1>6. ASSUME NEW o \in Ops, NEW k \in Keys,
             Approve(o, k) \/ RevokeKey(o, k) \/ RevokeOwnKey(o, k) \/ RotateKey(o, k)
      PROVE  Same
  <2>1. UNCHANGED <<bucket, gone, again>>
    BY <1>6 DEF Approve, RevokeKey, RevokeOwnKey, RotateKey, history
  <2>2. \E kind, pc \in {"approve", "revoke", "rotate", "done", "cooldown"} : Starts(o, kind, pc, k)
    BY <1>6 DEF Approve, RevokeKey, RevokeOwnKey, RotateKey
  <2> QED BY <1>b, <2>1, <2>2
<1>7. ASSUME NEW o \in Ops, NEW k \in Keys, NEW n \in Limits, ChangeLimits(o, k, n) PROVE Same
  BY <1>7, <1>b DEF ChangeLimits, history
<1>8. ASSUME NEW o \in Ops, NEW k \in Keys, NEW route \in {"minute", "hour"}, UseKey(o, k, route)
      PROVE  Same
  <2> DEFINE r == [kind |-> route, pc |-> "count", key |-> k,
                   limit |-> IF route = "minute" THEN limit[k] ELSE PerHour,
                   start |-> WindowStart(now, Length(route)), at |-> now]
  <2>1. op' = [op EXCEPT ![o] = r] /\ op[o].pc = "idle" BY <1>8 DEF UseKey
  <2>2. r.pc = "count" OBVIOUS
  <2>3. UNCHANGED <<bucket, gone, again>> BY <1>8 DEF UseKey, history
  <2> HIDE DEF r
  <2> QED BY <1>1, <2>1, <2>2, <2>3
<1>9. ASSUME MinutePasses PROVE Same BY <1>9 DEF MinutePasses, history
<1>10. ASSUME UNCHANGED vars PROVE Same BY <1>10 DEF vars, history
<1> HIDE DEF Same
<1>11. ASSUME NEW o \in Ops,
              \E k \in Keys :
                \/ Approve(o, k) \/ RevokeKey(o, k) \/ RevokeOwnKey(o, k) \/ RotateKey(o, k)
                \/ \E n \in Limits : ChangeLimits(o, k, n)
                \/ \E route \in {"minute", "hour"} : UseKey(o, k, route)
       PROVE  Same
  BY <1>6, <1>7, <1>8, <1>11
<1>12. ASSUME NEW o \in Ops,
              \/ RequestKey(o) \/ CreateRow(o) \/ PatchPrefix(o) \/ WriteRevoked(o)
              \/ CheckCooldown(o) \/ Swap(o) \/ AuditRotation(o) \/ Die(o)
              \/ \E n \in Limits : Issue(o, n)
       PROVE  Same
  BY <1>2, <1>3, <1>4, <1>5, <1>12
<1>13. Same BY <1>9, <1>10, <1>11, <1>12 DEF Next
<1> QED BY <1>13 DEF Same

LEMMA InitServed == Init => ServedInv
<1> SUFFICES ASSUME Init PROVE ServedInv OBVIOUS
<1>1. \A o \in Ops : op[o].pc = "idle" BY DEF Init, Begin
<1>2. \A k, s : Served(k, s) = {} BY <1>1 DEF Served
<1>3. \A k \in Keys, s \in Nat : Counted(k, s)
  BY <1>2, FS_EmptySet DEF Init, Counted
<1>4. LimitHolds BY <1>1 DEF LimitHolds
<1> QED BY <1>1, <1>2, <1>3, <1>4, FS_EmptySet DEF ServedInv

\* The verdict is the last step of a request; those let in before stay as they were.
LEMMA CountServes ==
  ASSUME TypeOK, NEW o \in Ops, Count(o)
  PROVE  /\ op[o].pc = "count" /\ op[o].key \in Keys /\ op[o].start \in Nat /\ op[o].limit \in Nat
         /\ \A p \in Ops \ {o} : op'[p] = op[p]
         /\ op'[o].pc = Verdict(op[o].key, op[o].start, op[o].limit)
         /\ op'[o].kind = op[o].kind /\ op'[o].key = op[o].key
         /\ op'[o].start = op[o].start /\ op'[o].limit = op[o].limit
<1>1. OpsOK BY TypeParts
<1>2. op[o] \in OpRec BY <1>1 DEF OpsOK
<1> DEFINE v == Verdict(op[o].key, op[o].start, op[o].limit)
           r == [op[o] EXCEPT !.pc = v]
<1>3. op' = [op EXCEPT ![o] = r] BY <1>1 DEF Count, Steps, OpsOK
<1>4. op[o].pc = "count" /\ op[o].key \in Keys BY <1>1 DEF Count, OpsOK, NeedsKey
<1> HIDE DEF v
<1>5. /\ r.pc = v /\ r.kind = op[o].kind /\ r.key = op[o].key
      /\ r.start = op[o].start /\ r.limit = op[o].limit
  BY <1>2 DEF OpRec
<1> HIDE DEF r
<1>6. (\A p \in Ops \ {o} : op'[p] = op[p]) /\ op'[o] = r BY <1>1, <1>3 DEF OpsOK
<1> QED BY <1>2, <1>4, <1>5, <1>6 DEF OpRec, v

LEMMA CountKeepsLimit ==
  ASSUME TypeOK, ServedInv, NEW o \in Ops, Count(o)
  PROVE  ServedInv'
<1>0. PICK k, s, n : k = op[o].key /\ s = op[o].start /\ n = op[o].limit OBVIOUS
<1>1. /\ op[o].pc = "count" /\ k \in Keys /\ s \in Nat /\ n \in Nat
      /\ \A p \in Ops \ {o} : op'[p] = op[p]
      /\ op'[o].pc = Verdict(k, s, n) /\ op'[o].kind = op[o].kind /\ op'[o].key = k
      /\ op'[o].start = s /\ op'[o].limit = n
  BY <1>0, CountServes
<1>2. /\ bucket' = [bucket EXCEPT ![k] = [start |-> s, count |-> Held(k, s) + 1]]
      /\ gone' = IF Held(k, s) = 0 /\ bucket[k].count > 0
                 THEN gone \cup {<<k, bucket[k].start>>} ELSE gone
      /\ again' = IF <<k, s>> \in gone THEN again \cup {<<k, s>>} ELSE again
  BY <1>0 DEF Count
<1>3. OthersOK BY TypeParts
<1>4. /\ bucket[k].start \in Nat /\ bucket[k].count \in Nat /\ Held(k, s) \in Nat
      /\ Held(k, s) = IF bucket[k].start = s THEN bucket[k].count ELSE 0
  BY <1>1, <1>3 DEF OthersOK, Held
<1>5. /\ bucket'[k].start = s /\ bucket'[k].count = Held(k, s) + 1
      /\ \A j \in Keys \ {k} : bucket'[j] = bucket[j]
  BY <1>1, <1>2, <1>3 DEF OthersOK
<1>6. gone \subseteq gone' /\ again \subseteq again' BY <1>2
\* The other windows let nobody in.
<1>7. ASSUME NEW j, NEW z, j # k \/ z # s PROVE Served(j, z)' = Served(j, z)
  BY <1>1, <1>7 DEF Served
<1>8. Served(k, s)' = IF Verdict(k, s, n) = "admitted" THEN Served(k, s) \cup {o} ELSE Served(k, s)
  <2>1. \A p \in Ops \ {o} : p \in Served(k, s)' <=> p \in Served(k, s) BY <1>1 DEF Served
  <2>2. o \in Served(k, s)' <=> Verdict(k, s, n) = "admitted" BY <1>1 DEF Served
  <2>3. o \notin Served(k, s) BY <1>1 DEF Served
  <2>4. Served(k, s)' \subseteq Ops /\ Served(k, s) \subseteq Ops BY DEF Served
  <2> QED BY <2>1, <2>2, <2>3, <2>4
<1>9. o \notin Served(k, s) /\ IsFiniteSet(Served(k, s)) BY <1>1 DEF Served, ServedInv
<1>10. /\ IsFiniteSet(Served(k, s)')
       /\ Cardinality(Served(k, s)') \in Nat /\ Cardinality(Served(k, s)) \in Nat
       /\ Cardinality(Served(k, s)') <= Cardinality(Served(k, s)) + 1
  <2>1. Cardinality(Served(k, s)) \in Nat BY <1>9, FS_CardinalityType
  <2>2. CASE Verdict(k, s, n) = "admitted"
    <3>1. /\ IsFiniteSet(Served(k, s) \cup {o})
          /\ Cardinality(Served(k, s) \cup {o}) = Cardinality(Served(k, s)) + 1
      BY <1>9, FS_AddElement
    <3> QED BY <1>8, <2>1, <2>2, <3>1
  <2>3. CASE Verdict(k, s, n) # "admitted" BY <1>8, <1>9, <2>1, <2>3
  <2> QED BY <2>2, <2>3
\* The row counted all that its window had let in.
<1>11. <<k, s>> \notin again' => <<k, s>> \notin gone /\ Cardinality(Served(k, s)) <= Held(k, s)
  <2> SUFFICES ASSUME <<k, s>> \notin again'
               PROVE  <<k, s>> \notin gone /\ Cardinality(Served(k, s)) <= Held(k, s)
    OBVIOUS
  <2>1. <<k, s>> \notin gone /\ <<k, s>> \notin again BY <1>2
  <2>2. Counted(k, s) BY <1>1 DEF ServedInv
  <2> QED BY <1>4, <2>1, <2>2, FS_EmptySet DEF Counted
<1>12. ASSUME NEW j \in Keys, NEW z \in Nat PROVE IsFiniteSet(Served(j, z)') /\ Counted(j, z)'
  <2>1. IsFiniteSet(Served(j, z)) /\ Counted(j, z) BY DEF ServedInv
  <2>2. CASE j # k
    <3>1. <<j, z>> \in gone' <=> <<j, z>> \in gone BY <1>2, <2>2
    <3>2. <<j, z>> \in again' <=> <<j, z>> \in again BY <1>2, <2>2
    <3> QED BY <1>5, <1>7, <2>1, <2>2, <3>1, <3>2 DEF Counted
  <2>3. CASE j = k /\ z # s
    <3>1. Served(j, z)' = Served(j, z) BY <1>7, <2>3
    <3>2. ASSUME <<k, z>> \notin again', <<k, z>> \notin gone' PROVE Served(k, z) = {}
      <4>1. <<k, z>> \notin again /\ <<k, z>> \notin gone BY <1>6, <3>2
      <4>2. CASE bucket[k].start = z
        <5>1. Held(k, s) = 0 BY <1>4, <2>3, <4>2
        <5>2. bucket[k].count = 0 BY <1>2, <1>4, <3>2, <4>2, <5>1
        <5>3. Cardinality(Served(k, z)) <= 0 BY <2>1, <2>3, <4>1, <4>2, <5>2 DEF Counted
        <5>4. Cardinality(Served(k, z)) \in Nat BY <2>1, <2>3, FS_CardinalityType
        <5> QED BY <2>1, <2>3, <5>3, <5>4, FS_EmptySet
      <4>3. CASE bucket[k].start # z BY <2>1, <2>3, <4>1, <4>3 DEF Counted
      <4> QED BY <4>2, <4>3
    <3> QED BY <1>5, <2>1, <2>3, <3>1, <3>2 DEF Counted
  <2>4. CASE j = k /\ z = s
    <3>1. ASSUME <<k, s>> \notin again'
          PROVE  <<k, s>> \notin gone' /\ Cardinality(Served(k, s)') <= bucket'[k].count
      <4>1. <<k, s>> \notin gone /\ Cardinality(Served(k, s)) <= Held(k, s) BY <1>11, <3>1
      <4>2. Held(k, s) = 0 /\ bucket[k].count > 0 => bucket[k].start # s BY <1>4
      <4>3. <<k, s>> \notin gone' BY <1>2, <4>1, <4>2
      <4>4. Cardinality(Served(k, s)') <= Held(k, s) + 1 BY <1>4, <1>10, <4>1
      <4> QED BY <1>5, <4>3, <4>4
    <3>2. IsFiniteSet(Served(k, s)') /\ Counted(k, s)' BY <1>5, <1>10, <3>1 DEF Counted
    <3> QED BY <2>4, <3>2
  <2> QED BY <2>2, <2>3, <2>4
<1>13. \A p \in Ops : op'[p].pc = "admitted" => op'[p].key \in Keys BY <1>1 DEF ServedInv
<1>14. LimitHolds'
  <2> SUFFICES ASSUME NEW p \in Ops, op'[p].pc = "admitted", <<op'[p].key, op'[p].start>> \notin again'
               PROVE  \E x \in Admitted(op[p].key, op[p].kind, op[p].start)' :
                        Cardinality(Admitted(op[p].key, op[p].kind, op[p].start)') <= op'[x].limit
    BY DEF LimitHolds
  <2> DEFINE same == Admitted(op[p].key, op[p].kind, op[p].start)
  \* The request just let in had the whole count within its limit.
  <2>1. CASE Verdict(k, s, n) = "admitted" /\ op'[p].key = k /\ op'[p].start = s /\ op'[p].kind = op[o].kind
    <3>1. o \in same' BY <1>1, <2>1 DEF Admitted
    <3>2. same' = {x \in Ops : /\ op'[x].pc = "admitted" /\ op'[x].kind = op'[p].kind
                                /\ op'[x].key = op'[p].key /\ op'[x].start = op'[p].start}
      BY DEF Admitted
    <3>a. same' \subseteq Served(k, s)' BY <2>1, <3>2 DEF Served
    <3>3. Cardinality(same') \in Nat /\ Cardinality(same') <= Cardinality(Served(k, s)')
      BY <1>10, <3>a, FS_Subset, FS_CardinalityType
    <3>4. Cardinality(Served(k, s)) <= Held(k, s) BY <1>11, <2>1
    <3>5. Held(k, s) + 1 <= n BY <2>1 DEF Verdict
    <3>6. Cardinality(same') <= op'[o].limit BY <1>1, <1>4, <1>10, <3>3, <3>4, <3>5
    <3> QED BY <3>1, <3>6
  <2>2. CASE ~(Verdict(k, s, n) = "admitted" /\ op'[p].key = k /\ op'[p].start = s /\ op'[p].kind = op[o].kind)
    <3>1. p # o BY <1>1, <2>2
    <3>2. op'[p] = op[p] BY <1>1, <3>1
    <3>3. same' = same BY <1>1, <2>2, <3>2 DEF Admitted
    <3>4. <<op[p].key, op[p].start>> \notin again BY <1>6, <3>2
    <3>5. PICK x \in same : Cardinality(same) <= op[x].limit BY <3>2, <3>4 DEF ServedInv, LimitHolds
    <3>6. x # o /\ x \in Ops BY <1>1, <3>5 DEF Admitted
    <3>7. op'[x] = op[x] BY <1>1, <3>6
    <3> HIDE DEF same
    <3>8. x \in same' /\ Cardinality(same') <= op'[x].limit BY <3>3, <3>5, <3>7
    <3> QED BY <3>8 DEF same
  <2> QED BY <2>1, <2>2
<1> QED BY <1>12, <1>13, <1>14 DEF ServedInv

LEMMA ServedStep == TypeOK /\ ServedInv /\ [Next]_vars => ServedInv'
<1> SUFFICES ASSUME TypeOK, ServedInv, [Next]_vars, \A o \in Ops : ~Count(o) PROVE ServedInv'
  BY CountKeepsLimit
<1>1. /\ UNCHANGED <<bucket, gone, again>>
      /\ \A o \in Ops : \/ op'[o] = op[o]
                        \/ op[o].pc # "admitted" /\ op'[o].pc # "admitted"
  BY OnlyCountServes
<1>2. \A k, s : Served(k, s)' = Served(k, s) BY <1>1 DEF Served
<1>3. \A k, r, s : Admitted(k, r, s)' = Admitted(k, r, s) BY <1>1 DEF Admitted
<1>4. \A k \in Keys, s \in Nat : IsFiniteSet(Served(k, s)') /\ Counted(k, s)'
  BY <1>1, <1>2 DEF ServedInv, Counted
<1>5. \A o \in Ops : op'[o].pc = "admitted" => op'[o].key \in Keys BY <1>1 DEF ServedInv
<1>6. LimitHolds'
  <2> SUFFICES ASSUME NEW o \in Ops, op'[o].pc = "admitted", <<op'[o].key, op'[o].start>> \notin again'
               PROVE  \E x \in Admitted(op[o].key, op[o].kind, op[o].start)' :
                        Cardinality(Admitted(op[o].key, op[o].kind, op[o].start)') <= op'[x].limit
    BY DEF LimitHolds
  <2> DEFINE same == Admitted(op[o].key, op[o].kind, op[o].start)
  <2>1. op'[o] = op[o] /\ same' = same BY <1>1, <1>3
  <2>2. PICK x \in same : Cardinality(same) <= op[x].limit BY <1>1, <2>1 DEF ServedInv, LimitHolds
  <2>3. op'[x] = op[x] BY <1>1, <2>2 DEF Admitted
  <2> QED BY <2>1, <2>2, <2>3
<1> QED BY <1>4, <1>5, <1>6 DEF ServedInv

\* In a window that no other start has interrupted, one of the requests of a key that
\* were let in was allowed as many as all of them: two requests counted at once never
\* share a place.
THEOREM LimitsAreKept == Spec => []LimitHolds
<1>1. ServedInv => LimitHolds BY DEF ServedInv
<1>2. IInv => TypeOK BY DEF IInv
<1> QED BY <1>1, <1>2, InitServed, ServedStep, Invariance, PTL DEF Spec
=============================================================================
