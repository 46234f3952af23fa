------------------------------ MODULE AutoLock -------------------------------
(***************************************************************************)
(* The idle auto-lock of a tab (vault/autolock.ts), the setting it runs    *)
(* under (preferences.ts, the settings screen) and the effect of App.tsx   *)
(* that starts and stops it.                                               *)
(*                                                                         *)
(* Two clocks matter.  The wall clock runs always; a setTimeout counts     *)
(* only the time the machine is awake, and is served late in a hidden tab. *)
(***************************************************************************)
EXTENDS Naturals

CONSTANTS
    Minutes,        \* the timed settings
    DefaultMinutes, \* DEFAULT_AUTO_LOCK
    MaxIdle         \* the wall clock is followed this far past an activity

ASSUME AutoLockAssumption ==
    /\ Minutes \subseteq Nat \ {0} /\ DefaultMinutes \in Minutes
    /\ MaxIdle \in Nat /\ \A m \in Minutes : m <= MaxIdle

Timed(m) == [kind |-> "timed", minutes |-> m]
OnClose == [kind |-> "on-close", minutes |-> 0]
Never == [kind |-> "never", minutes |-> 0]
Junk == [kind |-> "junk", minutes |-> 0]
NotRunning == [kind |-> "stopped", minutes |-> 0]
Settings == {Timed(m) : m \in Minutes} \cup {OnClose, Never}

VARIABLES
    stored,     \* what localStorage holds under keyhole.autolock
    setting,    \* App's autoLock state
    unlocked,
    running,    \* the setting startAutoLock was called with, NotRunning if not
    idle,       \* wall-clock time since lastActivity
    left,       \* awake time until the timer is due
    awake, visible

timerVars == <<stored, setting, unlocked, running, idle, left, awake, visible>>

\* readAutoLock: a value that is no setting falls back to the default.
ReadAutoLock(raw) == IF raw \in Settings THEN raw ELSE Timed(DefaultMinutes)

TimerInit ==
    /\ stored \in Settings \cup {Junk}
    /\ setting = ReadAutoLock(stored)
    /\ unlocked = FALSE /\ running = NotRunning
    /\ idle = 0 /\ left = 0
    /\ awake = TRUE /\ visible = TRUE

IsTimed == running.kind = "timed"

\* startAutoLock ends in restart().
Start(v) == running' = v /\ idle' = 0 /\ left' = v.minutes

\* onLock clears the store and locks the session; the effect's cleanup then
\* clears the timer and removes the listeners.
LockTab == unlocked' = FALSE /\ running' = NotRunning /\ idle' = 0 /\ left' = 0

-----------------------------------------------------------------------------
Unlock ==
    /\ awake /\ ~unlocked
    /\ unlocked' = TRUE
    /\ Start(setting)
    /\ UNCHANGED <<stored, setting, awake, visible>>

LockNow ==
    /\ awake /\ unlocked
    /\ LockTab
    /\ UNCHANGED <<stored, setting, awake, visible>>

\* handleAutoLockChange persists and lifts the state; the effect depends on it.
ChangeSetting(v) ==
    /\ awake /\ visible /\ unlocked /\ v # setting
    /\ stored' = v
    /\ setting' = v
    /\ Start(v)
    /\ UNCHANGED <<unlocked, awake, visible>>

\* [bug] lastActivity moves, the old timer stays.
TouchKeepingTimer ==
    /\ awake /\ visible /\ IsTimed
    /\ idle' = 0
    /\ UNCHANGED <<stored, setting, unlocked, running, left, awake, visible>>

\* pointerdown, keydown or focus: restart().
Touch ==
    /\ awake /\ visible /\ IsTimed
    /\ Start(running)
    /\ UNCHANGED <<stored, setting, unlocked, awake, visible>>

\* visibilitychange: onHidden under "on-close", checkElapsed under a time.
ChangeVisibility ==
    /\ awake
    /\ visible' = ~visible
    /\ IF \/ running = OnClose /\ visible
          \/ IsTimed /\ idle >= running.minutes
       THEN LockTab
       ELSE IF IsTimed
       THEN Start(running) /\ UNCHANGED unlocked
       ELSE UNCHANGED <<unlocked, running, idle, left>>
    /\ UNCHANGED <<stored, setting, awake>>

\* [bug] the timer does nothing in a hidden tab.
FireOnlyVisible ==
    /\ awake /\ visible /\ IsTimed /\ left = 0
    /\ LockTab
    /\ UNCHANGED <<stored, setting, awake, visible>>

Fire ==
    /\ awake /\ IsTimed /\ left = 0
    /\ LockTab
    /\ UNCHANGED <<stored, setting, awake, visible>>

Later(t) == IF t < MaxIdle THEN t + 1 ELSE MaxIdle

\* Awake, both clocks run; a due timer of a visible tab does not wait.
Tick ==
    /\ awake /\ IsTimed
    /\ left > 0 \/ ~visible
    /\ idle' = Later(idle)
    /\ left' = IF left > 0 THEN left - 1 ELSE 0
    /\ UNCHANGED <<stored, setting, unlocked, running, awake, visible>>

\* Asleep, only the wall clock does.
SleepTick ==
    /\ ~awake /\ IsTimed
    /\ idle' = Later(idle)
    /\ UNCHANGED <<stored, setting, unlocked, running, left, awake, visible>>

SleepOrWake ==
    /\ awake' = ~awake
    /\ UNCHANGED <<stored, setting, unlocked, running, idle, left, visible>>

\* Reloading loses the session and reads the preference again.
Reload ==
    /\ awake /\ visible
    /\ LockTab
    /\ setting' = ReadAutoLock(stored)
    /\ UNCHANGED <<stored, awake, visible>>

TimerNext ==
    \/ Unlock \/ LockNow \/ Touch \/ ChangeVisibility \/ Fire
    \/ \E v \in Settings : ChangeSetting(v)
    \/ Tick \/ SleepTick \/ SleepOrWake \/ Reload

TimerSpec == TimerInit /\ [][TimerNext]_timerVars

\* Time passes, and a due timer is served sooner or later also in a hidden tab.
FairTimerSpec == TimerSpec /\ WF_timerVars(Tick) /\ WF_timerVars(Fire)

-----------------------------------------------------------------------------
(***************************************************************************)
(* Properties.                                                             *)
(***************************************************************************)

\* The preference, the timer and the tab are in states the code can be in.
TimerTypeOK ==
    /\ stored \in Settings \cup {Junk}
    /\ setting \in Settings
    /\ running \in Settings \cup {NotRunning}
    /\ idle \in 0 .. MaxIdle /\ left \in 0 .. MaxIdle
    /\ {unlocked, awake, visible} \subseteq BOOLEAN

\* "a setting picked in SettingsScreen takes effect immediately": the timer that
\* runs is the one of the setting in force, and it runs exactly while unlocked.
TimerFollowsSetting ==
    running = IF unlocked THEN setting ELSE NotRunning

\* Nobody is locked out while working: the timer never runs ahead of the wall
\* clock, so when it fires the tab has really been idle that long.
NoEarlyLock == IsTimed => running.minutes <= idle + left

\* The invariant of startAutoLock: the timer is the setting's and never early.
TimerInv == TimerTypeOK /\ TimerFollowsSetting /\ NoEarlyLock

\* A tab left alone on a machine that stays awake does not stay unlocked under
\* a timed setting, hidden or not.
Attended == Touch \/ ChangeVisibility \/ \E v \in Settings : ChangeSetting(v)
UnattendedTabLocks ==
    <>[]awake /\ <>[][~Attended]_timerVars => []<>(unlocked => setting.kind # "timed")

\* "Every wake re-checks the wall clock": once the machine has slept past the
\* limit, no event of the wake starts the count again.
WakeRechecksTheClock ==
    [][IsTimed /\ idle > running.minutes /\ unlocked' => idle' >= idle]_timerVars
=============================================================================
