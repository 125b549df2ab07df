---------------------------- MODULE SessionStore ----------------------------
(***************************************************************************)
(* One attribute of one session in devplat-auth's RedisStorageHandler,     *)
(* that requests set, remove, and take: getAttributeAndRemove puts the     *)
(* time under a flag key with GETSET, goes on if there was no flag or one  *)
(* older than five minutes, and then reads the attribute, deletes it, and  *)
(* deletes the flag.  One that is refused leaves its own time in the flag. *)
(*                                                                         *)
(* Times are kept as ages in ticks.  A call that goes on for more than     *)
(* CallLimit ticks is not considered; JedisCluster repeats a command whose *)
(* answer is lost.                                                         *)
(***************************************************************************)
EXTENDS Integers

CONSTANTS
  Takers,      \* calls of getAttributeAndRemove
  Setters,     \* calls of setAttribute
  Window,      \* five minutes, in ticks
  CallLimit,   \* ticks from the first to the last command of a call
  MaxFaults    \* bound: calls that end early, answers that are lost

\* However the calls overlap, a flag that is found to be old is one that was left behind.
ASSUME SessionAssumption ==
  /\ CallLimit \in Nat /\ Window \in Nat /\ MaxFaults \in Nat
  /\ Window >= 3 * CallLimit

VARIABLES
  attribute,  \* the number of the write that has stored its value, if it is there
  writes,     \* how often the attribute has been written
  setting,    \* how many of its two writes each setAttribute has done
  flag,       \* the age of the time under the flag key, if it is there
  pc,         \* where each taker is
  stamp,      \* the age of the time the taker has asked for first
  saw,        \* the age of the time GETSET has returned to it, if any
  value,      \* the write whose value it has read, if any
  faults,     \* calls that have ended early and answers that were lost, so far
  orphaned,   \* history: the flag was left by a call that is over, or by a first GETSET
  redeleted   \* history: a flag was deleted twice

takers == <<pc, stamp, saw, value>>
vars == <<attribute, writes, setting, flag, takers, faults, orphaned, redeleted>>

None == -1
TooOld == Window + 1     \* ages are counted up to this one
Ages == 0..TooOld

TypeOK ==
  /\ attribute \in Nat
  /\ writes \in Nat
  /\ setting \in [Setters -> 0..2]
  /\ flag \in Ages \union {None}
  /\ pc \in [Takers -> {"idle", "stamped", "compare", "hget", "hdel", "del"}]
  /\ stamp \in [Takers -> 0..CallLimit]
  /\ saw \in [Takers -> Ages \union {None}]
  /\ value \in [Takers -> Nat]
  /\ faults \in 0..MaxFaults
  /\ orphaned \in BOOLEAN /\ redeleted \in BOOLEAN

Init ==
  /\ attribute = 0 /\ writes = 0
  /\ setting = [s \in Setters |-> 0]
  /\ flag = None
  /\ pc = [t \in Takers |-> "idle"]
  /\ stamp = [t \in Takers |-> 0]
  /\ saw = [t \in Takers |-> None]
  /\ value = [t \in Takers |-> 0]
  /\ faults = 0
  /\ orphaned = FALSE /\ redeleted = FALSE

Fault == faults < MaxFaults /\ faults' = faults + 1

-----------------------------------------------------------------------------
(* setAttribute, removeAttribute *)

Write == writes' = writes + 1 /\ attribute' = writes'

\* Mutant: one write too many
SetAttributeAgain(s) ==
  /\ setting[s] <= 2
  /\ Write
  /\ setting' = [setting EXCEPT ![s] = @ + 1]
  /\ UNCHANGED <<flag, takers, faults, orphaned, redeleted>>

\* setAttribute writes before and after it updates the cache of its request.
SetAttribute(s) ==
  /\ setting[s] < 2
  /\ Write
  /\ setting' = [setting EXCEPT ![s] = @ + 1]
  /\ UNCHANGED <<flag, takers, faults, orphaned, redeleted>>

SetUnanswered(s) ==
  /\ setting[s] < 2
  /\ Fault
  /\ Write
  /\ UNCHANGED <<setting, flag, takers, orphaned, redeleted>>

\* removeAttribute, or the session has not been written for a day; and what the first
\* of a repeated HDEL does.
RemoveAttribute ==
  /\ attribute' = 0
  /\ UNCHANGED <<writes, setting, flag, takers, faults, orphaned, redeleted>>

-----------------------------------------------------------------------------
(* getAttributeAndRemove *)

Goto(t, place) == pc' = [pc EXCEPT ![t] = place]

Return(t) ==
  /\ Goto(t, "idle")
  /\ stamp' = [stamp EXCEPT ![t] = 0]
  /\ saw' = [saw EXCEPT ![t] = None]
  /\ value' = [value EXCEPT ![t] = 0]

AskTime(t) ==
  /\ pc[t] = "idle"
  /\ Goto(t, "stamped")
  /\ UNCHANGED <<attribute, writes, setting, flag, stamp, saw, value, faults, orphaned,
                 redeleted>>

GetSet(t) ==
  /\ pc[t] = "stamped"
  /\ saw' = [saw EXCEPT ![t] = flag]
  /\ flag' = stamp[t]
  /\ Goto(t, "compare")
  /\ UNCHANGED <<attribute, writes, setting, stamp, value, faults, orphaned, redeleted>>

\* The command will be repeated, and find what it has stored itself.
GetSetUnanswered(t) ==
  /\ pc[t] = "stamped"
  /\ Fault
  /\ flag' = stamp[t]
  /\ orphaned' = TRUE
  /\ UNCHANGED <<attribute, writes, setting, takers, redeleted>>

\* Mutant: the window is not in milliseconds.
PassesEarly(t) == saw[t] = None \/ saw[t] > 0

Passes(t) == saw[t] = None \/ saw[t] > Window

\* The takers that read and delete the attribute, or will.
Taking(t) ==
  pc[t] \in {"hget", "hdel", "del"} \/ (pc[t] = "compare" /\ Passes(t))

GoOn(t) ==
  /\ pc[t] = "compare"
  /\ Passes(t)
  /\ Goto(t, "hget")
  /\ UNCHANGED <<attribute, writes, setting, flag, stamp, saw, value, faults, orphaned,
                 redeleted>>

Refuse(t) ==
  /\ pc[t] = "compare"
  /\ ~Passes(t)
  /\ Return(t)
  /\ UNCHANGED <<attribute, writes, setting, flag, faults, orphaned, redeleted>>

ReadValue(t) ==
  /\ pc[t] = "hget"
  /\ value' = [value EXCEPT ![t] = attribute]
  /\ Goto(t, "hdel")
  /\ UNCHANGED <<attribute, writes, setting, flag, stamp, saw, faults, orphaned,
                 redeleted>>

\* Mutant: what has been read stays.
LeaveValue(t) ==
  /\ pc[t] = "hdel"
  /\ Goto(t, "del")
  /\ UNCHANGED <<attribute, writes, setting, flag, stamp, saw, value, faults, orphaned,
                 redeleted>>

\* Whatever has been written since it was read goes too.
DeleteValue(t) ==
  /\ pc[t] = "hdel"
  /\ attribute' = 0
  /\ Goto(t, "del")
  /\ UNCHANGED <<writes, setting, flag, stamp, saw, value, faults, orphaned, redeleted>>

\* Mutant: the flag stays.
LeaveFlag(t) ==
  /\ pc[t] = "del"
  /\ Return(t)
  /\ UNCHANGED <<attribute, writes, setting, flag, faults, orphaned, redeleted>>

DeleteFlag(t) ==
  /\ pc[t] = "del"
  /\ flag' = None
  /\ orphaned' = FALSE
  /\ Return(t)
  /\ UNCHANGED <<attribute, writes, setting, faults, redeleted>>

\* The command will be repeated.
DeleteUnanswered(t) ==
  /\ pc[t] = "del"
  /\ Fault
  /\ flag' = None
  /\ orphaned' = FALSE
  /\ redeleted' = TRUE
  /\ UNCHANGED <<attribute, writes, setting, takers>>

\* The JVM of the request ends, or a command of it fails for good.
Abort(t) ==
  /\ pc[t] # "idle"
  /\ Fault
  /\ orphaned' = (orphaned \/ (Taking(t) /\ flag # None))
  /\ Return(t)
  /\ UNCHANGED <<attribute, writes, setting, flag, redeleted>>

-----------------------------------------------------------------------------
Older(age) == IF age \in {None, TooOld} THEN age ELSE age + 1

Tick ==
  /\ \A t \in Takers : pc[t] # "idle" => stamp[t] < CallLimit
  /\ stamp' = [t \in Takers |-> IF pc[t] = "idle" THEN 0 ELSE stamp[t] + 1]
  /\ saw' = [t \in Takers |-> Older(saw[t])]
  /\ flag' = Older(flag)
  /\ UNCHANGED <<attribute, writes, setting, pc, value, faults, orphaned, redeleted>>

Take(t) ==
  \/ AskTime(t) \/ GetSet(t) \/ GetSetUnanswered(t)
  \/ GoOn(t) \/ Refuse(t)
  \/ ReadValue(t) \/ DeleteValue(t) \/ DeleteFlag(t) \/ DeleteUnanswered(t)
  \/ Abort(t)

Next ==
  \/ \E s \in Setters : SetAttribute(s) \/ SetUnanswered(s)
  \/ \E t \in Takers : Take(t)
  \/ RemoveAttribute
  \/ Tick

Spec == Init /\ [][Next]_vars

-----------------------------------------------------------------------------
(* Properties *)

\* At most one call is between finding no flag, or an old one, and deleting it, even
\* when calls that are refused overwrite the time in the flag with their own, older one.
OneTaker == redeleted \/ \A t, u \in Takers : Taking(t) /\ Taking(u) => t = u

\* What was written once is taken once: no two calls have it in their hands, and a call
\* that has deleted it will not find it again.
TakenOnce ==
  \A t \in Takers : value[t] # 0 /\ ~redeleted =>
    /\ \A u \in Takers \ {t} : value[u] # value[t]
    /\ pc[t] = "del" => attribute # value[t]

\* A call finds a flag only while another takes the attribute, or if one has failed or
\* has had to repeat its GETSET: the times that refused calls leave go with the flag of
\* the call that refused them.
RefusedOnlyIfTaken ==
  flag # None => (\E t \in Takers : Taking(t)) \/ orphaned \/ redeleted

=============================================================================
