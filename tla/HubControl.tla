------------------------------ MODULE HubControl ------------------------------
(***************************************************************************)
(* How a HUB (ASTHUB.cpp) is started and stopped, and how it turns AST on  *)
(* and off for all SubPools at once or for one at a time.  AST itself is   *)
(* on for all of them or for none: the HUB keeps a status per SubPool, asks*)
(* AST when the first is enabled or the last disabled, and gives AST only  *)
(* the SubPools that are enabled and scheduled at the time.                *)
(*                                                                         *)
(* The times of a SubPool are slices of the day that are added one by one  *)
(* to a list of ranges, which is adjusted, extended and merged (TimeRange  *)
(* and TimeScheduleConfig).                                                *)
(*                                                                         *)
(* The HUB's other events, and what AST does with a request, are left to   *)
(* ASTCore; here AST answers a request some time later, or never.          *)
(***************************************************************************)
EXTENDS Integers, Sequences, SequencesExt, FiniteSetsExt

CONSTANTS
    DayEnd,         \* 86401, the end of the last range of a day
    SubPools,       \* keys; the map of their statuses is in the order of <
    SliceLists,     \* for each SubPool the lists of slices it may be given
    MaxAsks,        \* bound: how often AST is asked to be enabled or disabled
    MaxStarts       \* bound: how often the HUB is started

ASSUME SubPoolsAssumption == SubPools \subseteq Nat \ {0} /\ IsFiniteSet(SubPools)

-----------------------------------------------------------------------------
(* Schedules.                                                              *)

Ranges == {r \in [start : 0 .. DayEnd - 1, end : 1 .. DayEnd] : r.start < r.end}

FullDay == [start |-> 0, end |-> DayEnd]

Covered(ranges) == UNION {r.start .. r.end - 1 : r \in ranges}

\* TimeRangeLessThan, strictly.
Earlier(a, b) == a.start < b.start \/ (a.start = b.start /\ a.end < b.end)

\* How a new range n lies to a range r of the list: the loop ends there (cases 1
\* and 5), they are apart (2 and 7), or n is inside and shares one end (the
\* unexpected case); in all other cases r is extended by n (3, 4 and 6).
Stops(n, r)   == n = r \/ (n.start > r.start /\ n.end < r.end)
Apart(n, r)   == n.end < r.start \/ n.start > r.end
Refused(n, r) == /\ n.start >= r.start /\ n.end <= r.end
                 /\ (n.start = r.start) # (n.end = r.end)
Extended(n, r) == [start |-> Min({n.start, r.start}), end |-> Max({n.end, r.end})]

\* Ranges in order, those that touch or overlap made one.
Merged(sorted) ==
    LET add(list, r) ==
            IF list # <<>> /\ Last(list).end >= r.start
            THEN Front(list) \o <<[start |-> Last(list).start,
                                   end |-> Max({r.end, Last(list).end})]>>
            ELSE Append(list, r)
    IN FoldLeft(add, <<>>, sorted)

\* AddTimeRange: adjust the ranges up to the first where the loop ends, add the
\* new one if it is apart from one of them, and merge.
AddTimeRange(list, n, newschedule) ==
    LET stop     == Min({i \in DOMAIN list : Stops(n, list[i])} \cup {Len(list) + 1})
        seen     == {list[i] : i \in 1 .. stop - 1}
        adjusted == [i \in DOMAIN list |->
                        IF i >= stop \/ Apart(n, list[i]) \/ Refused(n, list[i])
                        THEN list[i] ELSE Extended(n, list[i])]
        all      == Range(adjusted) \cup (IF \E r \in seen : Apart(n, r) THEN {n} ELSE {})
    IN IF list # <<>> /\ Head(list) = FullDay
       THEN [list |-> IF newschedule THEN <<n>> ELSE list, ok |-> TRUE]
       ELSE [list |-> Merged(SetToSortSeq(all, Earlier)),
             ok   |-> ~ \E r \in seen : Refused(n, r)]

\* AddTimeRanges: the first slice replaces what was there; a slice that is
\* refused ends it; no slices leave everything as it is.
AddTimeRanges(list, slices) ==
    LET add(acc, n) == IF acc.ok THEN AddTimeRange(acc.list, n, FALSE) ELSE acc
    IN IF slices = <<>> THEN list
       ELSE FoldLeft(add, AddTimeRange(<<FullDay>>, Head(slices), TRUE), Tail(slices)).list

\* TimeIsScheduled at a second of a day on which the schedule applies.
TimeIsScheduled(list, second) ==
    \E i \in DOMAIN list : list[i].start <= second /\ list[i].end > second

\* The slices up to and with the first that is refused.
Accepted(slices) ==
    LET fits(k) == \A i \in 2 .. k - 1 :
            AddTimeRange(AddTimeRanges(<<>>, SubSeq(slices, 1, i - 1)), slices[i], FALSE).ok
    IN SubSeq(slices, 1, Max({k \in DOMAIN slices : fits(k)}))

\* The seconds a SubPool is meant to be involved: those of the slices accepted.
Wanted(slices) ==
    IF slices = <<>> THEN Covered({FullDay}) ELSE Covered(Range(Accepted(slices)))

\* Adding slices one by one makes a list of ranges that covers just these.
SchedulesCover ==
    \A p \in SubPools : \A slices \in SliceLists[p] :
        LET list == AddTimeRanges(<<FullDay>>, slices) IN
        /\ list \in Seq(Ranges)
        /\ \A second \in 0 .. DayEnd - 1 :
              TimeIsScheduled(list, second) <=> second \in Wanted(slices)

-----------------------------------------------------------------------------
(* The state of the HUB.                                                   *)

All == 0            \* an event in batch mode
Statuses == {"disabled", "enabling", "enabled", "disabling"}
HubStatuses == {"running", "serving_for_ast", "stopping", "stopped"}

VARIABLES
    hubStatus,      \* mHUBStatus; starting and failed are not seen outside
    hubAst,         \* mASTStatus
    subPoolAst,     \* mSubPoolASTStatus: "none" is no entry
    enableInBatch, disableInBatch,
    queue,          \* mEventContainer
    status,         \* the local of Handle, kept from event to event
    pc,             \* the HUB thread: none, handling, asking and waiting (for an
                    \* answer in sync mode), spinning, blocked, exited
    asked,          \* the message in AST's hands: none, enable or disable
    result,         \* mEnableOrDisableASTResult
    stopper,        \* who calls Stop: idle, waiting (for the signal), joining
    schedules,      \* mSubPoolTimeSchedules: <<>> is no entry
    sync,           \* mEnableOrDisableASTSync, set before the HUB starts
    callers,        \* callers ask for one SubPool at a time, in batch, or both
    \* for the properties:
    last,           \* the last ask handled for a SubPool
    wanted,         \* the seconds of the slices accepted for it
    asks, starts

astVars  == <<hubAst, asked, result>>
poolVars == <<subPoolAst, enableInBatch, disableInBatch>>
stopVars == <<stopper, starts>>
timeVars == <<schedules, wanted>>
modes    == <<sync, callers>>
controlVars == <<hubStatus, astVars, poolVars, queue, status, pc, stopVars, timeVars,
                 modes, last, asks>>

Event(type, p, ok) == [type |-> type, pool |-> p, ok |-> ok]
Events == [type : {"enable", "disable", "enable_echo", "disable_echo", "stop"},
           pool : SubPools \cup {All}, ok : BOOLEAN]

IsOn(s) == s \in {"enabling", "enabled"}

ControlInit ==
    /\ hubStatus = "stopped" /\ hubAst = "disabled"
    /\ subPoolAst = [p \in SubPools |-> "none"]
    /\ enableInBatch = TRUE /\ disableInBatch = TRUE
    /\ queue = <<>> /\ status = "disabled" /\ pc = "none"
    /\ asked = "none" /\ result = TRUE /\ stopper = "idle"
    /\ schedules = [p \in SubPools |-> <<>>]
    /\ wanted = [p \in SubPools |-> {}]
    /\ sync \in BOOLEAN /\ callers \in {"single", "batch", "both"}
    /\ last = [p \in SubPools |-> "disable"]
    /\ asks = 0 /\ starts = 0

-----------------------------------------------------------------------------
(* Callers in other threads.                                               *)

\* Start and entry; the thread starts with no local of its last life.
Start ==
    /\ hubStatus = "stopped" /\ stopper = "idle" /\ starts < MaxStarts
    /\ starts' = starts + 1 /\ hubStatus' = "running"
    /\ pc' = "handling" /\ status' = "disabled"
    /\ UNCHANGED <<astVars, poolVars, queue, stopper, timeVars, modes, last, asks>>

\* LaunchEnableASTEvent and LaunchDisableASTEvent.
Ask ==
    /\ asks < MaxAsks /\ asks' = asks + 1
    /\ \E p \in (IF callers = "batch" THEN {} ELSE SubPools)
                 \cup (IF callers = "single" THEN {} ELSE {All}) :
          \/ queue' = Append(queue, Event("enable", p, TRUE))
          \/ queue' = Append(queue, Event("disable", p, TRUE))
          \/ queue' = <<Event("disable", p, TRUE)>> \o queue        \* immediate
    /\ UNCHANGED <<hubStatus, astVars, poolVars, status, pc, stopVars, timeVars,
                   modes, last>>

\* Stop up to where it waits for the signal of the HUB thread.
Stop ==
    /\ hubStatus \in {"running", "serving_for_ast"} /\ stopper = "idle"
    /\ hubStatus' = "stopping" /\ stopper' = "waiting"
    /\ \E immediate \in BOOLEAN :
          queue' = IF immediate THEN <<Event("stop", All, TRUE)>> \o queue
                   ELSE Append(queue, Event("stop", All, TRUE))
    /\ UNCHANGED <<astVars, poolVars, status, pc, starts, timeVars, modes, last, asks>>

\* The end of Stop.
Join ==
    /\ stopper = "joining" /\ pc = "exited"
    /\ stopper' = "idle" /\ hubStatus' = "stopped"
    /\ UNCHANGED <<astVars, poolVars, queue, status, pc, starts, timeVars, modes,
                   last, asks>>

\* AddTimeRanges and SetSubPoolTimeScheduleConfig, on the days that apply.
\* Bound: before the HUB is first started or asked.
Schedule ==
    /\ starts = 0 /\ asks = 0
    /\ \E p \in SubPools : \E slices \in SliceLists[p] :
          /\ schedules' = [schedules EXCEPT ![p] = AddTimeRanges(<<FullDay>>, slices)]
          /\ wanted' = [wanted EXCEPT ![p] = Wanted(slices)]
    /\ UNCHANGED <<hubStatus, astVars, poolVars, queue, status, pc, stopVars, modes,
                   last, asks>>

\* ET_hub_enable_ast_echo and ET_hub_disable_ast_echo.
Echo == IF asked = "enable" THEN "enable_echo" ELSE "disable_echo"

\* NotifyEnableASTResult and NotifyDisableASTResult.  Enabling may fail, with or
\* without an answer; a signal that nobody waits for is lost.
Answer ==
    /\ asked # "none" /\ asked' = "none"
    /\ \E ok \in (IF asked = "enable" THEN BOOLEAN ELSE {TRUE}) :
          IF sync
          THEN /\ result' = ok
               /\ pc' = IF pc = "waiting" THEN "woken" ELSE pc
               /\ UNCHANGED queue
          ELSE /\ queue' = Append(queue, Event(Echo, All, ok))
               /\ UNCHANGED <<result, pc>>
    /\ UNCHANGED <<hubStatus, hubAst, poolVars, status, stopVars, timeVars, modes,
                   last, asks>>

-----------------------------------------------------------------------------
(* The HUB thread.                                                         *)

Takes(type) == pc = "handling" /\ queue # <<>> /\ Head(queue).type = type
P == Head(queue).pool

\* GetSubPoolASTStatus: "none" is ENOENT.
StatusOf(p) == IF enableInBatch THEN hubAst ELSE subPoolAst[p]

\* mSelfStatusCond.Signal under mSelfStatusLock, which Stop holds in join.
Signalled == IF stopper = "waiting" THEN "joining" ELSE stopper

\* EnableAST (which resets the messages first) and DisableAST, up to where the
\* HUB thread waits in sync mode.
Asking(what) == IF what = "enable" THEN "enabling" ELSE "disabling"
Request(what) ==
    /\ hubAst' = Asking(what) /\ asked' = what
    /\ pc' = IF sync THEN "asking" ELSE "handling"
    /\ UNCHANGED result
NoRequest == UNCHANGED <<astVars, pc>>

\* What an ask for p or for all makes of the last asks.
LastIs(what) == [p \in SubPools |-> IF P \in {p, All} THEN what ELSE last[p]]

handleFrame == <<hubStatus, stopVars, timeVars, modes, asks>>

\* ET_hub_enable_ast for one SubPool.
EnableOne ==
    /\ Takes("enable") /\ P # All
    /\ queue' = Tail(queue) /\ status' = hubAst /\ last' = LastIs("enable")
    /\ subPoolAst' = [subPoolAst EXCEPT ![P] =
                         IF hubAst = "enabled" THEN "enabled" ELSE "enabling"]
    /\ IF hubAst = "disabled"
       THEN enableInBatch' = FALSE /\ Request("enable")
       ELSE UNCHANGED enableInBatch /\ NoRequest
    /\ UNCHANGED <<handleFrame, disableInBatch>>

\* ET_hub_enable_ast in batch mode: launched again while AST is disabling.
EnableAll ==
    /\ Takes("enable") /\ P = All
    /\ status' = hubAst
    /\ queue' = IF hubAst = "disabling" THEN Append(Tail(queue), Head(queue))
                ELSE Tail(queue)
    /\ last' = IF hubAst = "disabling" THEN last ELSE LastIs("enable")
    /\ IF hubAst = "disabled"
       THEN enableInBatch' = TRUE /\ Request("enable")
       ELSE UNCHANGED enableInBatch /\ NoRequest
    /\ UNCHANGED <<handleFrame, subPoolAst, disableInBatch>>

\* Mutant of ShouldDisableAST: AST is disabled with any SubPool.
FaultyShouldDisableAST(p) == IsOn(StatusOf(p))

\* ShouldDisableAST: p is the one SubPool that is enabled or enabling.
ShouldDisableAST(p) ==
    /\ Cardinality({q \in SubPools : IsOn(subPoolAst[q])}) = 1
    /\ IsOn(StatusOf(p))

\* What is left in status; a SubPool without an entry leaves what was there.
Found(p) == IF StatusOf(p) = "none" THEN status ELSE StatusOf(p)

\* ET_hub_disable_ast for one SubPool.
DisableOne ==
    /\ Takes("disable") /\ P # All
    /\ queue' = Tail(queue) /\ last' = LastIs("disable")
    /\ LET s    == Found(P)
           ends == s = "enabled" /\ ShouldDisableAST(P)
       IN /\ status' = s
          /\ IF ends
             THEN disableInBatch' = FALSE /\ Request("disable")
             ELSE UNCHANGED disableInBatch /\ NoRequest
          /\ subPoolAst' = [subPoolAst EXCEPT ![P] =
                CASE s = "enabled" /\ (ends \/ hubStatus = "stopping") -> "disabling"
                  [] s = "enabled" /\ ~ends /\ hubStatus # "stopping" -> "disabled"
                  [] s = "enabling" -> "disabled"
                  [] OTHER          -> @]
    /\ UNCHANGED <<handleFrame, enableInBatch>>

\* ET_hub_disable_ast in batch mode: launched again, at the front, while AST is
\* enabling, so that the HUB never comes to the echo.
DisableAll ==
    /\ Takes("disable") /\ P = All
    /\ status' = hubAst
    /\ queue' = IF hubAst = "enabling" THEN queue ELSE Tail(queue)
    /\ last' = IF hubAst = "enabling" THEN last ELSE LastIs("disable")
    /\ IF hubAst = "enabled"
       THEN disableInBatch' = TRUE /\ Request("disable")
       ELSE UNCHANGED disableInBatch /\ NoRequest
    /\ UNCHANGED <<handleFrame, subPoolAst, enableInBatch>>

\* Mutant of Enabled: every SubPool that was ever asked for is enabled.
FaultyEnabled(ok) ==
    /\ hubAst' = IF ok THEN "enabled" ELSE hubAst
    /\ hubStatus' = IF ok THEN "serving_for_ast" ELSE hubStatus
    /\ subPoolAst' = [p \in SubPools |->
           IF ok /\ ~enableInBatch /\ subPoolAst[p] # "none"
           THEN "enabled" ELSE subPoolAst[p]]
    /\ pc' = "handling"

\* HandleEnableASTEcho.  The status of a HUB that is stopping is overwritten.
Enabled(ok) ==
    /\ hubAst' = IF ok THEN "enabled" ELSE hubAst
    /\ hubStatus' = IF ok THEN "serving_for_ast" ELSE hubStatus
    /\ subPoolAst' = [p \in SubPools |->
           IF ok /\ ~enableInBatch /\ subPoolAst[p] = "enabling"
           THEN "enabled" ELSE subPoolAst[p]]
    /\ pc' = "handling"

\* A SubPool was enabled while AST was disabling: the loop that launches its
\* event again never ends.
Spins == ~disableInBatch /\ \E p \in SubPools : subPoolAst[p] = "enabling"

\* HandleDisableASTEcho, which AST only calls with success, and the end of the
\* thread in a HUB that is stopping.
Disabled ==
    /\ hubAst' = "disabled"
    /\ subPoolAst' = [p \in SubPools |->
           IF ~disableInBatch /\ subPoolAst[p] = "disabling" THEN "disabled"
           ELSE subPoolAst[p]]
    /\ enableInBatch' = disableInBatch
    /\ IF Spins THEN pc' = "spinning" /\ UNCHANGED <<hubStatus, stopper>>
       ELSE IF hubStatus = "stopping"
       THEN /\ pc' = IF stopper = "joining" THEN "blocked" ELSE "exited"
            /\ stopper' = Signalled /\ UNCHANGED hubStatus
       ELSE pc' = "handling" /\ hubStatus' = "running" /\ UNCHANGED stopper

echoFrame == <<asked, disableInBatch, status, starts, timeVars, modes, last, asks>>

EnableEcho ==
    /\ Takes("enable_echo") /\ queue' = Tail(queue)
    /\ Enabled(Head(queue).ok)
    /\ UNCHANGED <<echoFrame, result, enableInBatch, stopper>>

DisableEcho ==
    /\ Takes("disable_echo") /\ queue' = Tail(queue)
    /\ Disabled
    /\ UNCHANGED <<echoFrame, result>>

\* WaitUntilEnableASTEchoed, WaitUntilDisableASTEchoed: without a condition.
Wait ==
    /\ pc = "asking" /\ pc' = "waiting"
    /\ UNCHANGED <<hubStatus, astVars, poolVars, queue, status, stopVars, timeVars,
                   modes, last, asks>>

\* The end of EnableAST and of DisableAST in sync mode.
Wake ==
    /\ pc = "woken" /\ result' = TRUE
    /\ IF hubAst = "enabling"
       THEN Enabled(result) /\ UNCHANGED <<enableInBatch, stopper>>
       ELSE Disabled
    /\ UNCHANGED <<echoFrame, queue>>

\* ET_hub_stop: each SubPool is disabled by an event at the front of the queue,
\* or the thread that stops the HUB is told to go on.
StopEvent ==
    LET on == {p \in SubPools : IsOn(subPoolAst[p])}
    IN /\ Takes("stop") /\ status' = hubAst
       /\ IF IsOn(hubAst)
          THEN /\ \E off \in [1 .. Cardinality(on) -> on] :
                     /\ \A i, j \in DOMAIN off : i < j => off[i] > off[j]
                     /\ queue' = [i \in DOMAIN off |-> Event("disable", off[i], TRUE)]
                                 \o Tail(queue)
               /\ UNCHANGED <<stopper, pc>>
          ELSE /\ queue' = Tail(queue)
               /\ IF stopper = "joining" THEN pc' = "blocked" /\ UNCHANGED stopper
                  ELSE stopper' = Signalled /\ UNCHANGED pc
       /\ UNCHANGED <<hubStatus, astVars, poolVars, starts, timeVars, modes, last, asks>>

HubStep ==
    \/ EnableOne \/ EnableAll \/ DisableOne \/ DisableAll
    \/ EnableEcho \/ DisableEcho \/ Wait \/ Wake \/ StopEvent

ControlNext == Start \/ Ask \/ Stop \/ Join \/ Schedule \/ Answer \/ HubStep

ControlSpec == ControlInit /\ [][ControlNext]_controlVars

-----------------------------------------------------------------------------
(* Every variable has the type of the member it stands for.                *)
ControlTypeOK ==
    /\ hubStatus \in HubStatuses /\ hubAst \in Statuses
    /\ subPoolAst \in [SubPools -> Statuses \cup {"none"}]
    /\ enableInBatch \in BOOLEAN /\ disableInBatch \in BOOLEAN
    /\ queue \in Seq(Events) /\ status \in Statuses
    /\ pc \in {"none", "handling", "asking", "waiting", "woken", "spinning",
               "blocked", "exited"}
    /\ asked \in {"none", "enable", "disable"} /\ result \in BOOLEAN
    /\ stopper \in {"idle", "waiting", "joining"}
    /\ schedules \in [SubPools -> Seq(Ranges)]
    /\ sync \in BOOLEAN /\ callers \in {"single", "batch", "both"}

(* ShouldSubPoolBeInvolved at a second of the day, for a SubPool of the    *)
(* configuration view; without a schedule it never is.                     *)
IsInvolved(p, second) ==
    /\ IF enableInBatch THEN hubAst = "enabled" ELSE subPoolAst[p] = "enabled"
    /\ TimeIsScheduled(schedules[p], second)

\* Nothing is left to be done about AST and the SubPools.
Settled ==
    /\ pc = "handling" /\ queue = <<>> /\ hubAst \in {"disabled", "enabled"}

(* When all is done, AST is given exactly the SubPools that were last asked *)
(* to be enabled, at the times of their schedules, whatever was asked while *)
(* AST was switching, and over restarts of the HUB; as long as the callers  *)
(* do not ask for SubPools and for all of them by turns.                   *)
InvolvedAsAsked ==
    Settled /\ callers # "both" =>
        \A p \in SubPools, second \in 0 .. DayEnd - 1 :
            IsInvolved(p, second) <=> last[p] = "enable" /\ second \in wanted[p]

(* ASTHUB.cpp:240-246 and 328-331 rely on it: AST is only disabled when no *)
(* SubPool is enabled any more; one that is enabled meanwhile has to wait. *)
NoneEnabledWhileDisabling ==
    hubAst = "disabling" /\ callers = "single" =>
        \A p \in SubPools : subPoolAst[p] # "enabled"

(* A HUB that has stopped leaves AST off, nothing of it under way, and no  *)
(* SubPool that would be involved without being asked for again; with the  *)
(* same reserve.                                                           *)
StoppedMeansOff ==
    hubStatus = "stopped" /\ callers # "both" =>
        /\ hubAst = "disabled" /\ asked = "none"
        /\ \A p \in SubPools : ~IsOn(subPoolAst[p])

(* AST is switched off for all SubPools at once or for none: when it is    *)
(* being disabled, and when the HUB has stopped.                           *)
OffForAll == ControlTypeOK /\ NoneEnabledWhileDisabling /\ StoppedMeansOff
=============================================================================
