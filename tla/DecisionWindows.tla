---------------------------- MODULE DecisionWindows ----------------------------
(***************************************************************************)
(* The cycles of AST and its two decision windows (CycleManager,           *)
(* DecisionWindowManager and TimeManager, ASTTime.cpp).  A window counts   *)
(* its cycles by type, first those of learning, then those of decision;    *)
(* the short-term one says when advice is generated and when the OBJs'     *)
(* cycle counters start anew, the lengths of both weight the moving        *)
(* averages.                                                               *)
(***************************************************************************)
EXTENDS Integers, FiniteSets

CONSTANT Settings    \* [short, long]: cycles per window, as configured

WindowNames == {"short", "long"}   \* DW_short_term, DW_long_term

ASSUME SettingsAssumption == Settings \subseteq [WindowNames -> Nat \ {0}]

VARIABLES
    relative,    \* mCurCycleRelative
    windows      \* per window: mCycles, the shares of learning and decision,
                 \* mCurCycleType and mIsNewWindowStarted

timeVars == <<relative, windows>>

CycleTypes == 0 .. 1     \* CT_learning, CT_decision
NoType     == 2          \* CT_cnt

\* The cycles of a window spent on learning and on decision.
Share(name, cycles) ==
    IF name = "short" THEN [t \in CycleTypes |-> IF t = 0 THEN cycles - 1 ELSE 1]
    ELSE [t \in CycleTypes |-> IF t = 0 THEN cycles ELSE 0]

Least(S) == CHOOSE t \in S : \A u \in S : t <= u

\* FindNextCaredCycleType: the next type with a share, from the first one again
\* after the last.
NextCared(share, from) ==
    LET after  == {t \in CycleTypes : t > from /\ share[t] # 0}
        before == {t \in CycleTypes : t < from /\ share[t] # 0}
    IN IF after # {} THEN Least(after) ELSE IF before # {} THEN Least(before) ELSE from

NewWindow(name, cycles) ==
    [cycles |-> cycles, share |-> Share(name, cycles),
     type |-> NextCared(Share(name, cycles), NoType), new |-> FALSE]

\* The cycles of the types up to a window's present one.
Passed(w) == IF w.type = 0 THEN w.share[0] ELSE w.share[0] + w.share[1]

\* Mutant of Launched: the type changes one cycle late.
FaultyLaunched(w, r) ==
    IF r % w.cycles = 0
    THEN [w EXCEPT !.new = TRUE, !.type = NextCared(w.share, NoType)]
    ELSE [w EXCEPT !.new = FALSE,
                   !.type = IF Passed(w) < r % w.cycles THEN NextCared(w.share, @) ELSE @]

\* DecisionWindowManager::LaunchNewCycle
Launched(w, r) ==
    IF r % w.cycles = 0
    THEN [w EXCEPT !.new = TRUE, !.type = NextCared(w.share, NoType)]
    ELSE [w EXCEPT !.new = FALSE,
                   !.type = IF Passed(w) = r % w.cycles THEN NextCared(w.share, @) ELSE @]

\* TimeManager::LaunchNewCycle, on the timer's thread
Tick ==
    /\ relative' = relative + 1
    /\ windows' = [name \in WindowNames |-> Launched(windows[name], relative + 1)]

\* TimeManager::Reset when AST is enabled, with the windows configured now.
ResetTime(setting) ==
    /\ relative' = 0
    /\ windows' = [name \in WindowNames |-> NewWindow(name, setting[name])]

InitTime ==
    /\ relative = 0
    /\ \E setting \in Settings :
          windows = [name \in WindowNames |-> NewWindow(name, setting[name])]

NextTime == Tick \/ \E setting \in Settings : ResetTime(setting)

TimeSpec == InitTime /\ [][NextTime]_timeVars

--------------------------------------------------------------------------------
(* Properties *)

\* A window that is stepped from cycle to cycle and reset in between is in the
\* type that the number of the cycle in the window says: learning for its share
\* of cycles, then decision; so of the cycles of a short-term window exactly the
\* last one decides, and a long-term window only learns.
TypesFollowShares ==
    \A name \in WindowNames :
        LET w == windows[name] IN
        w.type = IF relative % w.cycles < w.share[0] THEN 0 ELSE 1

\* Between two decisions of a short-term window lie its other cycles.
DecidesLast ==
    windows["short"].type = 1 <=>
        relative % windows["short"].cycles = windows["short"].cycles - 1
================================================================================
