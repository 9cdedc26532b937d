--------------------------- MODULE ShadowScheduler ---------------------------
(***************************************************************************)
(* The Stage-1 shadow session of intraday_session_scheduler.py, with the   *)
(* inputs of intraday_session_inputs.py and the replay audit of            *)
(* intraday_replay_audit.py.  One exchange day: a process is started,      *)
(* passes the gates, loads the frozen signal, and then wakes once per tick *)
(* to read the broker state, decide, append a line to the shadow log and   *)
(* stamp the manifest, until the close, a halt or a crash; it may then be  *)
(* started again.  The clock, the operator's kill file and the broker run  *)
(* beside it.                                                              *)
(*                                                                         *)
(* Simplifications.  Time is counted in ticks.  Every intent has notional  *)
(* one, so deployed_notional is entries_count.  The two read-only broker   *)
(* calls of a snapshot are one.  Fingerprints are the fingerprinted values *)
(* themselves, so a mutation at rest of a file is outside the model.  The  *)
(* observer of a tick cannot change any of this and is left out.           *)
(***************************************************************************)
EXTENDS Naturals, Sequences, FiniteSets

CONSTANTS
    Parents,      \* parent intent ids of the entries the pipeline may want
    Exits,        \* protective exits the pipeline may want
    LiveStates,   \* answers of the class-C/D reads
    Configs,      \* pinned configurations a process may be started with
    Signals,      \* versions of the frozen daily signal
    AsOf,         \* the day of each version
    Today,        \* the session's day
    Sessions,     \* bounds the calendar may give, or NoSession
    OpenDelay,    \* entry_open_delay_seconds, in ticks
    CloseCutoff,  \* entry_close_cutoff_seconds, in ticks
    MaxEntries,   \* the pipeline's cap on entries of a session
    MaxConsecutive, \* MAX_CONSECUTIVE_TICK_INPUT_FAILURES
    MaxTries,     \* _BROKER_MAX_RETRIES
    Deadline,     \* _BROKER_DEADLINE_SECONDS, in units of backoff
    MaxTime, MaxStarts,   \* bounds
    NoSession, None

ASSUME ScheduleAssumption ==
    /\ OpenDelay \in Nat \ {0} /\ CloseCutoff \in Nat \ {0}
    /\ MaxConsecutive \in Nat \ {0} /\ MaxTries \in Nat \ {0}
    /\ Deadline \in Nat /\ MaxEntries \in Nat
    /\ MaxTime \in Nat /\ MaxStarts \in Nat /\ Today \in Nat
    /\ \A b \in Sessions \ {NoSession} :
           b.open \in Nat /\ b.close \in Nat /\ b.open < b.close /\ b.close <= MaxTime
ASSUME InputAssumption ==
    /\ \A l \in LiveStates : /\ l.want \subseteq Parents /\ l.book \subseteq Parents
                             /\ l.exits \subseteq Exits
    /\ \A c \in Configs : /\ c.valid \in BOOLEAN /\ c.enabled \in BOOLEAN
                          /\ c.flag \in BOOLEAN /\ c.cycles \in Nat
                          /\ c.gate # None
    /\ AsOf \in [Signals -> Nat]
    /\ IsFiniteSet(Parents) /\ IsFiniteSet(Exits) /\ Parents \cap Exits = {}
    /\ None \notin Signals

VARIABLES
    now,        \* wall clock
    bounds,     \* what the calendar says of this day
    kill,       \* whether the kill-switch file exists
    proc,       \* the scheduler process
    log,        \* lines of this day in intraday_decisions_shadow.jsonl
    manifest,   \* intraday_session_manifest_<date>.json, as last stamped
    starts      \* processes started so far

vars == <<now, bounds, kill, proc, log, manifest, starts>>

ZeroCounters == [entries |-> 0, turnover |-> 0]

NoManifest == [status |-> "absent", run |-> 0, ticks |-> 0, counters |-> ZeroCounters,
               signal |-> None, gate |-> None, skips |-> <<>>, error |-> "none"]

NoTick == [entries |-> {}, exits |-> {}, counters |-> ZeroCounters]

(* A process that is not running: its fields have their initial values.    *)
(* total is not in the code: the entries and trades of all its decisions.  *)
Down == [pc |-> "down", run |-> 0, cfg |-> None, keys |-> {}, signal |-> None,
         gate |-> None, counters |-> ZeroCounters, seen |-> {}, index |-> 0,
         cycles |-> 0, fails |-> 0, skips |-> <<>>, error |-> "none",
         at |-> 0, phase |-> "none",
         tries |-> 0, left |-> 0, tick |-> NoTick, wake |-> 0, total |-> ZeroCounters]

Running == proc.pc # "down"

-----------------------------------------------------------------------------
(* Session windows.                                                        *)

FirstEligible(b) == b.open + OpenDelay

EntryCutoff(b) ==
    IF b.close < FirstEligible(b) + CloseCutoff THEN FirstEligible(b)
                                                ELSE b.close - CloseCutoff

Phase_CutoffInclusive(b, t) ==
    IF t < b.open THEN "before"
    ELSE IF t < FirstEligible(b) THEN "settling"
    ELSE IF t >= b.close THEN "closed"
    ELSE IF t <= EntryCutoff(b) THEN "entries"
    ELSE "exits"

Phase(b, t) ==
    IF t < b.open THEN "before"
    ELSE IF t < FirstEligible(b) THEN "settling"
    ELSE IF t >= b.close THEN "closed"
    ELSE IF t < EntryCutoff(b) THEN "entries"
    ELSE "exits"

-----------------------------------------------------------------------------
(* One decision.                                                           *)

(* The pipeline's tick: entries that are wanted, not in flight and within  *)
(* the session's envelope; exits are never blocked.                        *)
TickRunner(live, counters, inFlight) ==
    LET fresh   == live.want \ inFlight
        entries == IF counters.entries + Cardinality(fresh) <= MaxEntries
                   THEN fresh ELSE {}
    IN  [entries  |-> entries, exits |-> live.exits,
         counters |-> [entries  |-> counters.entries + Cardinality(entries),
                       turnover |-> counters.turnover + Cardinality(entries)
                                                      + Cardinality(live.exits)]]

LessAtLeast(a, b, floor) == IF a < b + floor THEN floor ELSE a - b

(* Past the cutoff the entries are backed out of the counters and dropped. *)
WindowPolicy_KeepsCounters(d, phase, before) ==
    IF phase # "exits" THEN d ELSE [d EXCEPT !.entries = {}]

WindowPolicy(d, phase, before) ==
    LET n == Cardinality(d.entries)
    IN  IF phase # "exits" THEN d
        ELSE [entries  |-> {}, exits |-> d.exits,
              counters |-> [entries  |-> LessAtLeast(d.counters.entries, n, 0),
                            turnover |-> LessAtLeast(d.counters.turnover, n,
                                                     before.turnover)]]

Decide(live, counters, inFlight, phase) ==
    WindowPolicy(TickRunner(live, counters, inFlight), phase, counters)

-----------------------------------------------------------------------------
(* Persistence.                                                            *)

(* A line of the log with the inputs the audit replays.                    *)
Line_AliasedCounters(p, live) ==
    LET inFlight == p.seen \cup live.book
        decision == Decide(live, p.counters, inFlight, p.phase)
    IN  [index |-> p.index, run |-> p.run, at |-> p.at, phase |-> p.phase,
         signal |-> p.signal, gate |-> p.gate, live |-> live,
         inFlight |-> inFlight, before |-> decision.counters,
         decision |-> decision]

Line(p, live) ==
    LET inFlight == p.seen \cup live.book
    IN  [index |-> p.index, run |-> p.run, at |-> p.at, phase |-> p.phase,
         signal |-> p.signal, gate |-> p.gate, live |-> live,
         inFlight |-> inFlight, before |-> p.counters,
         decision |-> Decide(live, p.counters, inFlight, p.phase)]

LoadKeys_Empty == {}

LoadKeys == {log[i].index : i \in DOMAIN log}

(* Append is silent on a line whose index the log already has.             *)
AppendLine(line, keys) == IF line.index \in keys THEN log ELSE Append(log, line)

Stamp(p, status) ==
    manifest' = [status |-> status, run |-> p.run, ticks |-> p.index,
                 counters |-> p.counters, signal |-> p.signal, gate |-> p.gate,
                 skips |-> p.skips, error |-> p.error]

(* The process stops after a last stamp, or without one.                   *)
StopsWith(p, status) == Stamp(p, status) /\ proc' = Down

-----------------------------------------------------------------------------
Init ==
    /\ now = 0 /\ kill = FALSE /\ bounds \in Sessions
    /\ proc = Down /\ log = <<>> /\ manifest = NoManifest /\ starts = 0

(* The status of a session the gates of run_session refuse, or "open".     *)
GateStatus(c) ==
    IF ~c.valid THEN "disabled_config_invalid"
    ELSE IF ~c.enabled THEN "disabled_config"
    ELSE IF ~c.flag THEN "disabled_env_flag"
    ELSE IF kill THEN "halted_kill_switch"
    ELSE IF bounds = NoSession THEN "non_session_day"
    ELSE "open"

Start ==
    /\ ~Running /\ starts < MaxStarts
    /\ starts' = starts + 1
    /\ \E c \in Configs :
         LET p == [Down EXCEPT !.pc = "load", !.run = starts + 1, !.cfg = c,
                               !.keys = LoadKeys]
         IN  IF GateStatus(c) = "open"
             THEN proc' = p /\ UNCHANGED manifest
             ELSE StopsWith(p, GateStatus(c))
    /\ UNCHANGED <<now, bounds, kill, log>>

(* Class A, once per session.                                              *)
Load ==
    /\ proc.pc = "load"
    /\ \/ \E v \in Signals :
            IF AsOf[v] < Today
            THEN LET p == [proc EXCEPT !.pc = "cycle", !.signal = v]
                 IN  Stamp(p, "running") /\ proc' = p
            ELSE StopsWith(proc, "aborted_class_a_leak")
       \/ StopsWith(proc, "aborted_class_a_unavailable")
    /\ UNCHANGED <<now, bounds, kill, log, starts>>

(* The next wake-up, a tick from now, but within the bounded day.          *)
NextWake == IF now < MaxTime THEN now + 1 ELSE now

Sleep(p) == [p EXCEPT !.pc = "asleep", !.at = 0, !.phase = "none", !.tries = 0,
                      !.left = 0, !.tick = NoTick, !.wake = NextWake]

(* The end of a cycle: the wait for the next tick, or, after max_cycles,    *)
(* the stamp that ends the session.                                        *)
EndCycle(p) ==
    LET q == [p EXCEPT !.cycles = IF p.cfg.cycles = 0 THEN 0 ELSE @ + 1]
    IN  proc' = IF q.cfg.cycles # 0 /\ q.cycles >= q.cfg.cycles
                THEN [Sleep(q) EXCEPT !.pc = "last"] ELSE Sleep(q)

(* The top of the loop: kill switch, then phase, then class B once.        *)
KillSeen_AtStartOnly == FALSE

KillSeen == kill

Cycle ==
    /\ proc.pc = "cycle"
    /\ LET phase == Phase(bounds, now) IN
         CASE KillSeen -> StopsWith(proc, "halted_kill_switch")
           [] ~KillSeen /\ phase = "closed" -> StopsWith(proc, "completed")
           [] ~KillSeen /\ phase \in {"before", "settling"} ->
                EndCycle(proc) /\ UNCHANGED manifest
           [] OTHER ->
                /\ proc' = [proc EXCEPT !.pc = "read", !.at = now, !.phase = phase,
                                        !.tries = 0, !.left = Deadline,
                                        !.gate = IF @ = None THEN proc.cfg.gate ELSE @]
                /\ UNCHANGED manifest
    /\ UNCHANGED <<now, bounds, kill, log, starts>>

Wake_Exact ==
    /\ proc.pc = "asleep" /\ now = proc.wake
    /\ proc' = [proc EXCEPT !.pc = "cycle", !.wake = 0]
    /\ UNCHANGED <<now, bounds, kill, log, manifest, starts>>

Wake ==
    /\ proc.pc = "asleep" /\ now >= proc.wake
    /\ proc' = [proc EXCEPT !.pc = "cycle", !.wake = 0]
    /\ UNCHANGED <<now, bounds, kill, log, manifest, starts>>

-----------------------------------------------------------------------------
(* The class-C read of a tick: retries within a budget.                    *)

Halt(p, status, error) == StopsWith([p EXCEPT !.error = error], status)

(* TickInputUnavailable: the tick is skipped, its index is kept, and the   *)
(* last of a run of failures ends the session.                             *)
SkipIndex_Consumed(p) == p.index + 1

SkipIndex(p) == p.index

TooMany_OneMore(n) == n > MaxConsecutive

TooMany(n) == n >= MaxConsecutive

SkipTick(p) ==
    LET q == [p EXCEPT !.fails = @ + 1, !.index = SkipIndex(p),
                       !.skips = Append(@, p.index)]
    IN  IF TooMany(q.fails)
        THEN Halt(q, "halted_tick_error", "outage")
        ELSE EndCycle(q) /\ Stamp(q, "running")

(* A transient failure: the last attempt gives up, and so does one whose   *)
(* backoff or Retry-After does not fit the budget.  A sleep that fits but  *)
(* runs over raises an error that no longer carries the transient cause.   *)
ReadFails ==
    /\ proc.pc = "read"
    /\ \E remaining \in 0..proc.left, wait \in 0..(Deadline + 1) :
         IF proc.tries + 1 = MaxTries \/ wait > remaining
         THEN SkipTick(proc)
         ELSE \E left \in 0..(remaining - wait) :
                IF left = 0
                THEN Halt(proc, "halted_tick_error", "deadline")
                ELSE /\ proc' = [proc EXCEPT !.tries = @ + 1, !.left = left]
                     /\ UNCHANGED manifest
    /\ UNCHANGED <<now, bounds, kill, log, starts>>

(* A permanent broker error, an unreadable order-state file or an          *)
(* exception of the pipeline.                                              *)
TickRaises ==
    /\ proc.pc = "read"
    /\ Halt(proc, "halted_tick_error", "fault")
    /\ UNCHANGED <<now, bounds, kill, log, starts>>

(* The never-submit assertion fails before the line is written.            *)
ShadowViolation ==
    /\ proc.pc = "read"
    /\ StopsWith(proc, "halted_shadow_violation")
    /\ UNCHANGED <<now, bounds, kill, log, starts>>

Traded(total, d) ==
    [entries  |-> total.entries + Cardinality(d.entries),
     turnover |-> total.turnover + Cardinality(d.entries) + Cardinality(d.exits)]

(* The reads answered: decide and append the line.                         *)
RunTick ==
    /\ proc.pc = "read"
    /\ \E live \in LiveStates :
         LET line == Line(proc, live)
         IN  /\ log' = AppendLine(line, proc.keys)
             /\ proc' = [proc EXCEPT !.pc = "stamp", !.tick = line.decision,
                                     !.keys = @ \cup {line.index},
                                     !.total = Traded(@, line.decision)]
    /\ UNCHANGED <<now, bounds, kill, manifest, starts>>

(* The else branch of the loop: the counters are folded and stamped.       *)
AfterTick_KeepsFails(p) ==
    [p EXCEPT !.index = @ + 1, !.counters = p.tick.counters,
              !.seen = @ \cup p.tick.entries \cup p.tick.exits]

AfterTick(p) ==
    [p EXCEPT !.fails = 0, !.index = @ + 1, !.counters = p.tick.counters,
              !.seen = @ \cup p.tick.entries \cup p.tick.exits]

StampTick ==
    /\ proc.pc = "stamp"
    /\ EndCycle(AfterTick(proc)) /\ Stamp(AfterTick(proc), "running")
    /\ UNCHANGED <<now, bounds, kill, log, starts>>

LastStamp ==
    /\ proc.pc = "last" /\ StopsWith(proc, "stopped_max_cycles")
    /\ UNCHANGED <<now, bounds, kill, log, starts>>

-----------------------------------------------------------------------------
(* The environment.                                                        *)

Clock == now < MaxTime /\ now' = now + 1
         /\ UNCHANGED <<bounds, kill, proc, log, manifest, starts>>

ToggleKill == kill' = ~kill
              /\ UNCHANGED <<now, bounds, proc, log, manifest, starts>>

Crash == /\ Running /\ proc' = Down
         /\ UNCHANGED <<now, bounds, kill, log, manifest, starts>>

Work == Load \/ Cycle \/ Wake \/ ReadFails \/ TickRaises \/ ShadowViolation
        \/ RunTick \/ StampTick \/ LastStamp

Next == Start \/ Work \/ Clock \/ ToggleKill \/ Crash

Spec == Init /\ [][Next]_vars

(* A started process is scheduled, and time passes.                        *)
FairSpec == Spec /\ WF_vars(Work) /\ WF_vars(Clock)

-----------------------------------------------------------------------------
(* The replay audit of the day's log against the manifest.                 *)

LineMismatches(l) ==
    (IF l.signal # manifest.signal THEN {"signal_version_drift"} ELSE {})
    \cup (IF l.gate # manifest.gate THEN {"gate_input_fingerprint_drift"} ELSE {})
    \cup (IF l.phase = "exits" /\ l.decision.entries # {}
          THEN {"entry_after_cutoff"} ELSE {})
    \cup (IF l.decision # Decide(l.live, l.before, l.inFlight, l.phase)
          THEN {"decision_mismatch"} ELSE {})

Mismatches ==
    (IF manifest.signal = None \/ AsOf[manifest.signal] >= Today
     THEN {"class_a_leak"} ELSE {})
    \cup (IF manifest.gate = None /\ log # <<>> THEN {"class_b_missing"} ELSE {})
    \cup UNION {LineMismatches(log[i]) : i \in DOMAIN log}
    \cup (IF manifest.ticks # Len(log) THEN {"tick_count_mismatch"} ELSE {})

-----------------------------------------------------------------------------
(* Properties.                                                             *)

Counters == [entries : Nat, turnover : Nat]

Decisions == [entries : SUBSET Parents, exits : SUBSET Exits, counters : Counters]

Gates == {c.gate : c \in Configs} \cup {None}

Statuses == {"absent", "disabled_config_invalid", "disabled_config",
             "disabled_env_flag", "halted_kill_switch", "non_session_day",
             "aborted_class_a_leak", "aborted_class_a_unavailable", "running",
             "halted_tick_error", "halted_shadow_violation", "completed",
             "stopped_max_cycles"}

Procs == [pc : {"down", "load", "cycle", "read", "stamp", "asleep", "last"},
          run : Nat, cfg : Configs \cup {None}, keys : SUBSET Nat,
          signal : Signals \cup {None}, gate : Gates, counters : Counters,
          seen : SUBSET (Parents \cup Exits), index : Nat, cycles : Nat,
          fails : 0..(MaxConsecutive - 1), skips : Seq(Nat), error : {"none"},
          at : Nat, phase : {"none", "entries", "exits"}, tries : 0..(MaxTries - 1),
          left : 0..Deadline, tick : Decisions, wake : Nat, total : Counters]

Lines == [index : Nat, run : Nat, at : Nat, phase : {"entries", "exits"},
          signal : Signals, gate : Gates, live : LiveStates,
          inFlight : SUBSET (Parents \cup Exits), before : Counters,
          decision : Decisions]

Manifests == [status : Statuses, run : Nat, ticks : Nat, counters : Counters,
              signal : Signals \cup {None}, gate : Gates, skips : Seq(Nat),
              error : {"none", "outage", "deadline", "fault"}]

\* TypeOK: the shapes of the process, the log and the manifest.
TypeOK ==
    /\ now \in 0..MaxTime /\ bounds \in Sessions /\ kill \in BOOLEAN
    /\ starts \in 0..MaxStarts
    /\ proc \in Procs /\ log \in Seq(Lines) /\ manifest \in Manifests

\* IndicesContiguous: over all processes of a day the log holds the ticks 0,
\* 1, 2 and so on, once each: a restart never duplicates a line and a skipped
\* tick leaves no gap (ShadowTickWriter, _record_skipped_tick).
IndicesContiguous == \A i \in DOMAIN log : log[i].index = i - 1

\* TicksBacked: the manifest never counts a tick the log does not have, also
\* between the append and the stamp and after a crash (_run_tick, run_session).
TicksBacked == manifest.ticks <= Len(log)

\* CountersMatchDecided: the envelope counters the next tick is given are the
\* sums of what the session decided, entries that the window policy withdrew
\* not counted (apply_entry_window_policy).  That they stay within the cap is
\* what the external tick runner sees to from the counters it was given.
CountersMatchDecided ==
    LET c == IF proc.pc = "stamp" THEN proc.tick.counters ELSE proc.counters
    IN  c = proc.total /\ c.entries <= MaxEntries

\* EntriesInWindow: no line has an entry within the cutoff of the close or
\* before the opening delay, and every exit the pipeline wanted passed
\* (SessionWindows.phase, apply_entry_window_policy).
EntriesInWindow ==
    \A i \in DOMAIN log :
        LET l == log[i]
        IN  /\ l.at >= bounds.open + OpenDelay /\ l.at < bounds.close
            /\ l.decision.entries # {} => l.at + CloseCutoff < bounds.close
            /\ l.decision.exits = l.live.exits

\* OutageIsSustained: a session ended for transient failures had as many in a
\* row as the bound, with no tick decided between them (run_session).
OutageIsSustained ==
    manifest.error = "outage" =>
        LET n == Len(manifest.skips)
        IN  /\ n >= MaxConsecutive
            /\ \A i \in (n - MaxConsecutive + 1)..n : manifest.skips[i] = manifest.ticks

\* HonestSessionAudits: a day with one process that was not cut off leaves a
\* log and a manifest the replay audit accepts, however the session ended
\* (replay_session against _run_tick and _stamp).
HonestSessionAudits ==
    (starts = 1 /\ ~Running /\ manifest.signal # None /\ manifest.status # "running")
        => Mismatches = {}

\* TicksGated: a tick begins only under an enabled configuration and flag, on
\* a session day, and while the kill file is absent (run_session).
TicksGated ==
    [][(proc.pc # "read" /\ proc'.pc = "read") =>
         /\ ~kill /\ bounds # NoSession
         /\ proc.cfg.valid /\ proc.cfg.enabled /\ proc.cfg.flag]_vars

\* SessionEnds: a started process ends, at the latest after the close, as long
\* as it is scheduled and time passes (the loop of run_session).
SessionEnds == Running ~> ~Running

\* OneLinePerTick: the ticks the manifest counts are lines the manifest's own
\* session wrote (module docstring: "one line per tick").
OneLinePerTick == \A i \in 1..manifest.ticks : log[i].run = manifest.run
=============================================================================
