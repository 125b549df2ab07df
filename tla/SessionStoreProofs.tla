-------------------------- MODULE SessionStoreProofs --------------------------
(***************************************************************************)
(* Theorems of SessionStore for any calls, any window of at least three    *)
(* times the longest call, and any faults.                                 *)
(***************************************************************************)
EXTENDS SessionStore, TLAPS

-----------------------------------------------------------------------------
(* Type correctness *)

LEMMA TypeInit == Init => TypeOK
<1> SUFFICES ASSUME Init PROVE TypeOK
  OBVIOUS
<1>1. 0 \in 0..CallLimit /\ 0 \in 0..MaxFaults /\ 0 \in 0..2
  BY SessionAssumption
<1>2. /\ stamp \in [Takers -> 0..CallLimit]
      /\ saw \in [Takers -> Ages \union {None}]
      /\ setting \in [Setters -> 0..2]
      /\ value \in [Takers -> Nat]
      /\ pc \in [Takers -> {"idle", "stamped", "compare", "hget", "hdel", "del"}]
  BY <1>1 DEF Init
<1> QED
  BY <1>1, <1>2 DEF Init, TypeOK

LEMMA ReturnTypes ==
  ASSUME TypeOK, NEW t \in Takers, Return(t)
  PROVE  /\ pc' \in [Takers -> {"idle", "stamped", "compare", "hget", "hdel", "del"}]
         /\ stamp' \in [Takers -> 0..CallLimit]
         /\ saw' \in [Takers -> Ages \union {None}]
         /\ value' \in [Takers -> Nat]
<1>1. 0 \in 0..CallLimit
  BY SessionAssumption
<1> QED
  BY <1>1 DEF Return, Goto, TypeOK

LEMMA OlderIsAge ==
  ASSUME NEW age \in Ages \union {None}
  PROVE  /\ Older(age) \in Ages \union {None}
         /\ age = None <=> Older(age) = None
         /\ age # None => Older(age) \in {age, age + 1}
         /\ age > Window => Older(age) > Window
BY SessionAssumption DEF Older, Ages, None, TooOld

LEMMA TypeStep == TypeOK /\ [Next]_vars => TypeOK'
<1> SUFFICES ASSUME TypeOK, [Next]_vars PROVE TypeOK'
  OBVIOUS
<1>0. CallLimit \in Nat /\ Window \in Nat /\ MaxFaults \in Nat /\ CallLimit <= Window
  BY SessionAssumption
<1>a. 0..CallLimit \subseteq Ages
  BY <1>0 DEF Ages, TooOld
<1>1. ASSUME NEW s \in Setters, SetAttribute(s) PROVE TypeOK'
  BY <1>1 DEF SetAttribute, Write, TypeOK, takers
<1>2. ASSUME NEW s \in Setters, SetUnanswered(s) PROVE TypeOK'
  BY <1>0, <1>2 DEF SetUnanswered, Write, Fault, TypeOK, takers
<1>3. CASE RemoveAttribute
  BY <1>3 DEF RemoveAttribute, TypeOK, takers
<1>4. ASSUME NEW t \in Takers, AskTime(t) PROVE TypeOK'
  BY <1>4 DEF AskTime, Goto, TypeOK
<1>5. ASSUME NEW t \in Takers, GetSet(t) PROVE TypeOK'
  BY <1>5, <1>a DEF GetSet, Goto, TypeOK
<1>6. ASSUME NEW t \in Takers, GetSetUnanswered(t) PROVE TypeOK'
  BY <1>0, <1>6, <1>a DEF GetSetUnanswered, Fault, TypeOK, takers
<1>7. ASSUME NEW t \in Takers, GoOn(t) PROVE TypeOK'
  BY <1>7 DEF GoOn, Goto, TypeOK
<1>8. ASSUME NEW t \in Takers, Refuse(t) PROVE TypeOK'
  BY <1>8, ReturnTypes DEF Refuse, TypeOK
<1>9. ASSUME NEW t \in Takers, ReadValue(t) PROVE TypeOK'
  BY <1>9 DEF ReadValue, Goto, TypeOK
<1>10. ASSUME NEW t \in Takers, DeleteValue(t) PROVE TypeOK'
  BY <1>10 DEF DeleteValue, Goto, TypeOK
<1>11. ASSUME NEW t \in Takers, DeleteFlag(t) PROVE TypeOK'
  BY <1>11, ReturnTypes DEF DeleteFlag, TypeOK
<1>12. ASSUME NEW t \in Takers, DeleteUnanswered(t) PROVE TypeOK'
  <2>1. UNCHANGED <<attribute, writes, setting, pc, stamp, saw, value>>
    BY <1>12 DEF DeleteUnanswered, takers
  <2>2. faults' \in 0..MaxFaults
    BY <1>0, <1>12 DEF DeleteUnanswered, Fault, TypeOK
  <2> QED
    BY <1>12, <2>1, <2>2 DEF DeleteUnanswered, TypeOK
<1>13. ASSUME NEW t \in Takers, Abort(t) PROVE TypeOK'
  <2>1. faults' \in 0..MaxFaults
    BY <1>0, <1>13 DEF Abort, Fault, TypeOK
  <2>2. orphaned' \in BOOLEAN
    BY <1>13 DEF Abort, TypeOK
  <2> QED
    BY <1>13, <2>1, <2>2, ReturnTypes DEF Abort, TypeOK
<1>14. CASE Tick
  <2>1. \A t \in Takers : stamp'[t] \in 0..CallLimit
    BY <1>0, <1>14 DEF Tick, TypeOK
  <2>2. flag' \in Ages \union {None} /\ \A t \in Takers : saw'[t] \in Ages \union {None}
    BY <1>14, OlderIsAge DEF Tick, TypeOK
  <2>3. stamp' \in [Takers -> 0..CallLimit] /\ saw' \in [Takers -> Ages \union {None}]
    BY <1>14, <2>1, <2>2 DEF Tick
  <2> QED
    BY <1>14, <2>2, <2>3 DEF Tick, TypeOK
<1>15. CASE UNCHANGED vars
  BY <1>15 DEF vars, takers, TypeOK
<1> QED
  BY <1>1, <1>2, <1>3, <1>4, <1>5, <1>6, <1>7, <1>8, <1>9, <1>10, <1>11, <1>12, <1>13,
     <1>14, <1>15 DEF Next, Take

\* Ages keep to their range, and a call to its limit, whatever its commands meet.
THEOREM TypeCorrect == Spec => []TypeOK
BY TypeInit, TypeStep, PTL DEF Spec

-----------------------------------------------------------------------------
(* One taker at a time *)

\* The calls that take the attribute or could still find their time old enough to.
Candidate(t) ==
  \/ pc[t] \in {"hget", "hdel", "del"}
  \/ pc[t] = "compare" /\ (saw[t] = None \/ saw[t] > 2 * CallLimit + stamp[t])

\* There is one candidate, and the flag is young as long as it is under way.
FlagIsYoung ==
  \A t \in Takers : Candidate(t) =>
    /\ \A u \in Takers : Candidate(u) => t = u
    /\ flag # None /\ flag <= CallLimit + stamp[t]

CandidateInv == redeleted \/ FlagIsYoung

LEMMA CandidateInit == Init => CandidateInv
BY DEF Init, CandidateInv, FlagIsYoung, Candidate

\* A call that leaves the candidates as they are, or is not one any more, changes nothing.
LEMMA CandidatesKept ==
  ASSUME FlagIsYoung, UNCHANGED flag,
         \A t \in Takers : Candidate(t)' => Candidate(t) /\ stamp'[t] = stamp[t]
  PROVE  FlagIsYoung'
BY DEF FlagIsYoung

LEMMA CandidateGetSet ==
  ASSUME TypeOK, FlagIsYoung, NEW t \in Takers, GetSet(t)
  PROVE  FlagIsYoung'
<1> USE SessionAssumption
<1>1. /\ \A u \in Takers \ {t} : Candidate(u)' <=> Candidate(u)
      /\ ~Candidate(t) /\ stamp' = stamp
  BY DEF GetSet, Goto, Candidate, TypeOK
<1>2. flag' = stamp[t] /\ flag' \in 0..CallLimit /\ flag' # None
  BY DEF GetSet, TypeOK, None
<1>3. \A u \in Takers : stamp[u] \in 0..CallLimit
  BY DEF TypeOK
<1>4. \A u \in Takers : flag' <= CallLimit + stamp'[u]
  BY <1>1, <1>2, <1>3
<1>5. CASE \E c \in Takers : Candidate(c)
  <2>1. PICK c \in Takers : Candidate(c)
    BY <1>5
  <2>2. flag \in Nat /\ flag <= CallLimit + stamp[c]
    BY <2>1 DEF FlagIsYoung, TypeOK, Ages
  <2>3. saw'[t] = flag /\ pc'[t] = "compare"
    BY DEF GetSet, Goto, TypeOK
  <2>4. flag <= 2 * CallLimit + stamp[t] /\ flag # None
    BY <1>3, <2>2 DEF None
  <2>5. ~Candidate(t)'
    BY <1>1, <1>3, <2>2, <2>3, <2>4 DEF Candidate
  <2> QED
    BY <1>1, <1>2, <1>4, <2>5 DEF FlagIsYoung
<1>6. CASE ~\E c \in Takers : Candidate(c)
  BY <1>1, <1>2, <1>4, <1>6 DEF FlagIsYoung
<1> QED
  BY <1>5, <1>6

LEMMA CandidateTick ==
  ASSUME TypeOK, FlagIsYoung, Tick
  PROVE  FlagIsYoung'
<1>1. ASSUME NEW t \in Takers, Candidate(t)'
      PROVE  Candidate(t) /\ stamp'[t] = stamp[t] + 1
  <2>1. pc'[t] = pc[t] /\ pc[t] # "idle"
    BY <1>1 DEF Tick, Candidate
  <2>2. stamp'[t] = stamp[t] + 1 /\ stamp[t] \in Nat /\ stamp'[t] \in Nat
    BY <2>1 DEF Tick, TypeOK
  <2>3. saw[t] \in Ages \union {None} /\ saw'[t] = Older(saw[t])
    BY DEF Tick, TypeOK
  <2>4. \/ saw[t] = None
        \/ saw[t] \in Nat /\ saw'[t] # None /\ saw'[t] \in {saw[t], saw[t] + 1}
    BY <2>3, OlderIsAge DEF Ages
  <2>5. CASE pc[t] = "compare" /\ saw[t] # None
    <3>1. saw'[t] > 2 * CallLimit + stamp'[t]
      BY <1>1, <2>1, <2>4, <2>5 DEF Candidate
    <3>2. saw[t] > 2 * CallLimit + stamp[t]
      BY <2>2, <2>4, <2>5, <3>1, SessionAssumption
    <3> QED
      BY <2>2, <2>5, <3>2 DEF Candidate
  <2>6. CASE ~(pc[t] = "compare" /\ saw[t] # None)
    BY <1>1, <2>1, <2>2, <2>6 DEF Candidate
  <2> QED
    BY <2>5, <2>6
<1>2. flag # None => flag' # None /\ flag' \in {flag, flag + 1}
  BY OlderIsAge DEF Tick, TypeOK
<1>3. ASSUME NEW t \in Takers, Candidate(t)'
      PROVE  flag' # None /\ flag' <= CallLimit + stamp'[t]
  <2>1. flag # None /\ flag <= CallLimit + stamp[t] /\ stamp'[t] = stamp[t] + 1
    BY <1>1, <1>3 DEF FlagIsYoung
  <2>2. flag \in Nat /\ stamp[t] \in Nat
    BY <2>1 DEF TypeOK, Ages
  <2> QED
    BY <1>2, <2>1, <2>2, SessionAssumption
<1> QED
  BY <1>1, <1>3 DEF FlagIsYoung

LEMMA CandidateStep == TypeOK /\ CandidateInv /\ [Next]_vars => CandidateInv'
<1> SUFFICES ASSUME TypeOK, CandidateInv, [Next]_vars PROVE CandidateInv'
  OBVIOUS
<1>0. CASE redeleted
  <2>1. redeleted'
    BY <1>0 DEF Next, Take, vars, SetAttribute, SetUnanswered, RemoveAttribute, Tick, AskTime,
       GetSet, GetSetUnanswered, GoOn, Refuse, ReadValue, DeleteValue, DeleteFlag,
       DeleteUnanswered, Abort
  <2> QED
    BY <2>1 DEF CandidateInv
<1>a. CASE ~redeleted
  <2>0. FlagIsYoung
    BY <1>a DEF CandidateInv
  <2>1. ASSUME NEW s \in Setters, SetAttribute(s) \/ SetUnanswered(s) PROVE FlagIsYoung'
    <3>1. UNCHANGED <<flag, pc, stamp, saw>>
      BY <2>1 DEF SetAttribute, SetUnanswered, takers
    <3> QED
      BY <2>0, <3>1 DEF FlagIsYoung, Candidate
  <2>2. CASE RemoveAttribute
    <3>1. UNCHANGED <<flag, pc, stamp, saw>>
      BY <2>2 DEF RemoveAttribute, takers
    <3> QED
      BY <2>0, <3>1 DEF CandidateInv, FlagIsYoung, Candidate
  <2>3. ASSUME NEW t \in Takers,
               AskTime(t) \/ GoOn(t) \/ ReadValue(t) \/ DeleteValue(t)
        PROVE  FlagIsYoung'
    <3>1. ASSUME NEW u \in Takers, Candidate(u)' PROVE Candidate(u) /\ stamp'[u] = stamp[u]
      <4>1. saw' = saw /\ stamp' = stamp
        BY <2>3 DEF AskTime, GoOn, ReadValue, DeleteValue
      <4>2. CASE u # t
        BY <2>3, <3>1, <4>1, <4>2 DEF AskTime, GoOn, ReadValue, DeleteValue, Goto, Candidate,
           TypeOK
      <4>3. CASE u = t /\ ~AskTime(t) /\ ~GoOn(t)
        BY <2>3, <4>1, <4>3 DEF ReadValue, DeleteValue, Candidate
      <4>4. CASE u = t /\ GoOn(t)
        <5>1. pc[t] = "compare" /\ (saw[t] = None \/ saw[t] > Window)
          BY <4>4 DEF GoOn, Passes
        <5>2. saw[t] \in Int /\ stamp[t] \in 0..CallLimit
          BY SessionAssumption DEF TypeOK, Ages, None, TooOld
        <5>3. saw[t] > Window => saw[t] > 2 * CallLimit + stamp[t]
          BY <5>2, SessionAssumption
        <5> QED
          BY <4>1, <4>4, <5>1, <5>3 DEF Candidate
      <4>5. CASE u = t /\ AskTime(t)
        BY <3>1, <4>1, <4>5 DEF AskTime, Goto, Candidate, TypeOK
      <4> QED
        BY <4>2, <4>3, <4>4, <4>5
    <3>2. UNCHANGED flag
      BY <2>3 DEF AskTime, GoOn, ReadValue, DeleteValue
    <3> QED
      BY <2>0, <3>1, <3>2, CandidatesKept
  <2>4. ASSUME NEW t \in Takers, GetSet(t) PROVE FlagIsYoung'
    BY <2>0, <2>4, CandidateGetSet
  <2>5. ASSUME NEW t \in Takers, GetSetUnanswered(t) PROVE FlagIsYoung'
    <3>1. \A u \in Takers : Candidate(u)' <=> Candidate(u)
      BY <2>5 DEF GetSetUnanswered, takers, Candidate
    <3>2. flag' # None /\ \A u \in Takers : flag' <= CallLimit + stamp'[u]
      <4>1. flag' = stamp[t] /\ stamp' = stamp
        BY <2>5 DEF GetSetUnanswered, takers
      <4>2. \A u \in Takers : stamp[u] \in 0..CallLimit
        BY DEF TypeOK
      <4> QED
        BY <4>1, <4>2, SessionAssumption DEF None
    <3> QED
      BY <2>0, <3>1, <3>2 DEF FlagIsYoung
  <2>6. ASSUME NEW t \in Takers, Refuse(t) \/ Abort(t) PROVE FlagIsYoung'
    <3>1. pc'[t] = "idle" /\ UNCHANGED flag
      BY <2>6 DEF Refuse, Abort, Return, Goto, TypeOK
    <3>2. \A u \in Takers \ {t} : pc'[u] = pc[u] /\ saw'[u] = saw[u] /\ stamp'[u] = stamp[u]
      BY <2>6 DEF Refuse, Abort, Return, Goto, TypeOK
    <3> QED
      BY <2>0, <3>1, <3>2, CandidatesKept DEF Candidate
  <2>7. ASSUME NEW t \in Takers, DeleteFlag(t) PROVE FlagIsYoung'
    <3>1. Candidate(t)
      BY <2>7 DEF DeleteFlag, Candidate
    <3>2. pc'[t] = "idle"
      BY <2>7 DEF DeleteFlag, Return, Goto, TypeOK
    <3>3. \A u \in Takers \ {t} : pc'[u] = pc[u] /\ saw'[u] = saw[u] /\ stamp'[u] = stamp[u]
      BY <2>7 DEF DeleteFlag, Return, Goto, TypeOK
    <3>4. \A u \in Takers : ~Candidate(u)'
      BY <2>0, <3>1, <3>2, <3>3 DEF FlagIsYoung, Candidate
    <3> QED
      BY <3>4 DEF FlagIsYoung
  <2>8. ASSUME NEW t \in Takers, DeleteUnanswered(t) PROVE CandidateInv'
    BY <2>8 DEF DeleteUnanswered, CandidateInv
  <2>9. CASE Tick
    BY <2>0, <2>9, CandidateTick DEF CandidateInv
  <2>10. CASE UNCHANGED vars
    <3>1. UNCHANGED <<flag, pc, stamp, saw>>
      BY <2>10 DEF vars, takers
    <3> QED
      BY <2>0, <3>1 DEF CandidateInv, FlagIsYoung, Candidate
  <2> QED
    BY <2>1, <2>2, <2>3, <2>4, <2>5, <2>6, <2>7, <2>8, <2>9, <2>10
       DEF Next, Take, CandidateInv
<1> QED
  BY <1>0, <1>a

LEMMA TakerIsCandidate ==
  ASSUME TypeOK, NEW t \in Takers, Taking(t)
  PROVE  Candidate(t)
<1>1. saw[t] \in Int /\ stamp[t] \in 0..CallLimit
  BY SessionAssumption DEF TypeOK, Ages, None, TooOld
<1>2. saw[t] > Window => saw[t] > 2 * CallLimit + stamp[t]
  BY <1>1, SessionAssumption
<1> QED
  BY <1>2 DEF Taking, Passes, Candidate

LEMMA CandidatesAreEnough == TypeOK /\ CandidateInv => OneTaker
BY TakerIsCandidate DEF CandidateInv, FlagIsYoung, OneTaker

\* However many calls overlap and whatever times they leave in the flag, one at a time
\* takes the attribute, unless a flag was deleted twice.
THEOREM OneTakesAtATime == Spec => []OneTaker
<1>1. Init => TypeOK /\ CandidateInv
  BY TypeInit, CandidateInit
<1>2. TypeOK /\ CandidateInv /\ [Next]_vars => (TypeOK /\ CandidateInv)'
  BY TypeStep, CandidateStep
<1> QED
  BY <1>1, <1>2, CandidatesAreEnough, PTL DEF Spec

-----------------------------------------------------------------------------
(* No value is taken twice *)

\* A call has a value in its hands until it is over, and writes are numbered upwards.
ValueInv ==
  /\ attribute <= writes
  /\ \A t \in Takers :
       /\ value[t] <= writes
       /\ value[t] # 0 => pc[t] \in {"hdel", "del"}
       /\ pc[t] = "del" /\ value[t] # 0 => attribute # value[t]

LEMMA ValueInit == Init => ValueInv
BY DEF Init, ValueInv

LEMMA ValueStep == TypeOK /\ ValueInv /\ [Next]_vars => ValueInv'
<1> SUFFICES ASSUME TypeOK, ValueInv, [Next]_vars PROVE ValueInv'
  OBVIOUS
<1>0. attribute \in Nat /\ writes \in Nat /\ \A t \in Takers : value[t] \in Nat
  BY DEF TypeOK
<1>1. ASSUME Write, UNCHANGED takers PROVE ValueInv'
  <2>1. UNCHANGED <<pc, value>>
    BY <1>1 DEF takers
  <2> QED
    BY <1>0, <1>1, <2>1 DEF Write, ValueInv
<1>2. ASSUME NEW s \in Setters, SetAttribute(s) \/ SetUnanswered(s) PROVE ValueInv'
  BY <1>1, <1>2 DEF SetAttribute, SetUnanswered
<1>3. CASE RemoveAttribute
  BY <1>0, <1>3 DEF RemoveAttribute, takers, ValueInv
<1>4. ASSUME NEW t \in Takers, AskTime(t) \/ GetSet(t) \/ GoOn(t) PROVE ValueInv'
  <2>1. pc' = [pc EXCEPT ![t] = pc'[t]] /\ pc[t] \in {"idle", "stamped", "compare"}
    BY <1>4 DEF AskTime, GetSet, GoOn, Goto, TypeOK
  <2>2. pc'[t] \notin {"hdel", "del"} /\ UNCHANGED <<attribute, writes, value>>
    BY <1>4 DEF AskTime, GetSet, GoOn, Goto, TypeOK
  <2>3. value[t] = 0
    BY <2>1 DEF ValueInv
  <2> QED
    BY <2>1, <2>2, <2>3 DEF ValueInv, TypeOK
<1>5. ASSUME NEW t \in Takers, GetSetUnanswered(t) PROVE ValueInv'
  BY <1>5 DEF GetSetUnanswered, takers, ValueInv
<1>6. ASSUME NEW t \in Takers, Refuse(t) \/ Abort(t) \/ DeleteFlag(t) PROVE ValueInv'
  <2>1. Return(t) /\ UNCHANGED <<attribute, writes>>
    BY <1>6 DEF Refuse, Abort, DeleteFlag
  <2> QED
    BY <1>0, <2>1 DEF Return, Goto, ValueInv, TypeOK
<1>7. ASSUME NEW t \in Takers, ReadValue(t) PROVE ValueInv'
  <2>1. value'[t] = attribute /\ pc'[t] = "hdel"
    BY <1>7 DEF ReadValue, Goto, TypeOK
  <2>2. \A u \in Takers \ {t} : value'[u] = value[u] /\ pc'[u] = pc[u]
    BY <1>7 DEF ReadValue, Goto, TypeOK
  <2>3. UNCHANGED <<attribute, writes>>
    BY <1>7 DEF ReadValue
  <2> QED
    BY <1>0, <2>1, <2>2, <2>3 DEF ValueInv
<1>8. ASSUME NEW t \in Takers, DeleteValue(t) PROVE ValueInv'
  <2>1. attribute' = 0 /\ UNCHANGED <<writes, value>> /\ pc'[t] = "del" /\ pc[t] = "hdel"
    BY <1>8 DEF DeleteValue, Goto, TypeOK
  <2>2. \A u \in Takers \ {t} : pc'[u] = pc[u]
    BY <1>8 DEF DeleteValue, Goto, TypeOK
  <2> QED
    BY <1>0, <2>1, <2>2 DEF ValueInv
<1>9. ASSUME NEW t \in Takers, DeleteUnanswered(t) PROVE ValueInv'
  BY <1>9 DEF DeleteUnanswered, takers, ValueInv
<1>10. CASE Tick
  BY <1>10 DEF Tick, ValueInv
<1>11. CASE UNCHANGED vars
  BY <1>11 DEF vars, takers, ValueInv
<1> QED
  BY <1>2, <1>3, <1>4, <1>5, <1>6, <1>7, <1>8, <1>9, <1>10, <1>11 DEF Next, Take

LEMMA ValuesAreEnough == TypeOK /\ CandidateInv /\ ValueInv => TakenOnce
<1> SUFFICES ASSUME TypeOK, CandidateInv, ValueInv, NEW t \in Takers, value[t] # 0, ~redeleted
             PROVE  /\ \A u \in Takers \ {t} : value[u] # value[t]
                    /\ pc[t] = "del" => attribute # value[t]
  BY DEF TakenOnce
<1>1. ASSUME NEW u \in Takers \ {t} PROVE value[u] # value[t]
  <2>1. Candidate(t)
    BY DEF ValueInv, Candidate
  <2>2. ~Candidate(u)
    BY <1>1, <2>1 DEF CandidateInv, FlagIsYoung
  <2>3. value[u] = 0
    BY <1>1, <2>2 DEF ValueInv, Candidate
  <2> QED
    BY <2>3
<1> QED
  BY <1>1 DEF ValueInv

\* Whatever is written while it is taken, no two calls have the same value in their
\* hands, and what one has deleted does not come back.
THEOREM ValuesAreTakenOnce == Spec => []TakenOnce
<1>1. Init => TypeOK /\ CandidateInv /\ ValueInv
  BY TypeInit, CandidateInit, ValueInit
<1>2. TypeOK /\ CandidateInv /\ ValueInv /\ [Next]_vars => (TypeOK /\ CandidateInv /\ ValueInv)'
  BY TypeStep, CandidateStep, ValueStep
<1> QED
  BY <1>1, <1>2, ValuesAreEnough, PTL DEF Spec

-----------------------------------------------------------------------------
(* Refusals *)

LEMMA RefusalInit == Init => RefusedOnlyIfTaken
BY DEF Init, RefusedOnlyIfTaken

LEMMA RefusalStep ==
  TypeOK /\ RefusedOnlyIfTaken /\ [Next]_vars => RefusedOnlyIfTaken'
<1> SUFFICES ASSUME TypeOK, RefusedOnlyIfTaken, [Next]_vars,
                    flag' # None, ~orphaned', ~redeleted'
             PROVE  \E t \in Takers : Taking(t)'
  BY DEF RefusedOnlyIfTaken
<1>1. ASSUME UNCHANGED <<flag, orphaned, redeleted>>,
             \A t \in Takers : Taking(t) => Taking(t)'
      PROVE  \E t \in Takers : Taking(t)'
  BY <1>1 DEF RefusedOnlyIfTaken
<1>2. ASSUME UNCHANGED <<flag, orphaned, redeleted, pc, saw>>
      PROVE  \E t \in Takers : Taking(t)'
  BY <1>1, <1>2 DEF Taking, Passes
<1>3. ASSUME NEW s \in Setters, SetAttribute(s) \/ SetUnanswered(s)
      PROVE  \E t \in Takers : Taking(t)'
  BY <1>2, <1>3 DEF SetAttribute, SetUnanswered, takers
<1>4. CASE RemoveAttribute
  BY <1>2, <1>4 DEF RemoveAttribute, takers
<1>5. ASSUME NEW t \in Takers, AskTime(t) \/ GoOn(t) \/ ReadValue(t) \/ DeleteValue(t)
      PROVE  \E u \in Takers : Taking(u)'
  <2>1. UNCHANGED <<flag, orphaned, redeleted, saw>>
    BY <1>5 DEF AskTime, GoOn, ReadValue, DeleteValue
  <2>2. \A u \in Takers : pc'[u] = pc[u] \/ pc[u] = "idle" \/ pc'[u] \in {"hget", "hdel", "del"}
    BY <1>5 DEF AskTime, GoOn, ReadValue, DeleteValue, Goto, TypeOK
  <2> QED
    BY <1>1, <2>1, <2>2 DEF Taking, Passes
<1>6. ASSUME NEW t \in Takers, GetSet(t) PROVE \E u \in Takers : Taking(u)'
  <2>1. pc'[t] = "compare" /\ saw'[t] = flag /\ pc[t] = "stamped"
    BY <1>6 DEF GetSet, Goto, TypeOK
  <2>2. \A u \in Takers \ {t} : pc'[u] = pc[u] /\ saw'[u] = saw[u]
    BY <1>6 DEF GetSet, Goto, TypeOK
  <2>3. CASE flag = None
    BY <2>1, <2>3 DEF Taking, Passes
  <2>4. CASE flag # None
    <3>1. PICK u \in Takers : Taking(u)
      BY <1>6, <2>4 DEF GetSet, RefusedOnlyIfTaken
    <3> QED
      BY <2>1, <2>2, <3>1 DEF Taking, Passes
  <2> QED
    BY <2>3, <2>4
<1>7. ASSUME NEW t \in Takers, GetSetUnanswered(t) \/ DeleteFlag(t) \/ DeleteUnanswered(t)
      PROVE  \E u \in Takers : Taking(u)'
  BY <1>7 DEF GetSetUnanswered, DeleteFlag, DeleteUnanswered
<1>8. ASSUME NEW t \in Takers, Refuse(t) \/ Abort(t) PROVE \E u \in Takers : Taking(u)'
  <2>1. flag' = flag /\ flag # None /\ ~orphaned /\ ~redeleted /\ ~Taking(t)
    <3>1. CASE Refuse(t)
      BY <3>1 DEF Refuse, Taking
    <3>2. CASE Abort(t)
      <4>1. flag' = flag /\ flag # None /\ ~redeleted
        BY <3>2 DEF Abort
      <4>2. ~orphaned /\ ~Taking(t)
        BY <3>2, <4>1 DEF Abort
      <4> QED
        BY <4>1, <4>2
    <3> QED
      BY <1>8, <3>1, <3>2
  <2>2. PICK u \in Takers : Taking(u)
    BY <2>1 DEF RefusedOnlyIfTaken
  <2>3. pc'[u] = pc[u] /\ saw'[u] = saw[u]
    BY <1>8, <2>1, <2>2 DEF Refuse, Abort, Return, Goto, TypeOK
  <2> QED
    BY <2>2, <2>3 DEF Taking, Passes
<1>9. CASE Tick
  <2>1. flag # None /\ ~orphaned /\ ~redeleted
    BY <1>9, OlderIsAge DEF Tick, TypeOK
  <2>2. PICK u \in Takers : Taking(u)
    BY <2>1 DEF RefusedOnlyIfTaken
  <2>3. pc'[u] = pc[u] /\ saw'[u] = Older(saw[u]) /\ saw[u] \in Ages \union {None}
    BY <1>9 DEF Tick, TypeOK
  <2>4. Passes(u) => Passes(u)'
    BY <2>3, OlderIsAge DEF Passes
  <2> QED
    BY <2>2, <2>3, <2>4 DEF Taking
<1>10. CASE UNCHANGED vars
  BY <1>2, <1>10 DEF vars, takers
<1> QED
  BY <1>3, <1>4, <1>5, <1>6, <1>7, <1>8, <1>9, <1>10 DEF Next, Take

\* Without faults a flag is there only while a call takes the attribute: the times
\* refused calls leave behind never outlive it.
THEOREM FlagsAreTakenAlong == Spec => []RefusedOnlyIfTaken
<1>1. TypeOK /\ RefusedOnlyIfTaken /\ [Next]_vars => (TypeOK /\ RefusedOnlyIfTaken)'
  BY TypeStep, RefusalStep
<1> QED
  BY TypeInit, RefusalInit, <1>1, PTL DEF Spec

=============================================================================
