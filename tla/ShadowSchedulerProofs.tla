------------------------ MODULE ShadowSchedulerProofs ------------------------
(***************************************************************************)
(* The promises of the shadow session, for any calendar, configurations,   *)
(* signals, reads, retry budget and number of restarts.  The types need    *)
(* what the gates and the phase of a tick have established; on them rest   *)
(* the invariants of the log, of the envelope counters, of the skipped     *)
(* ticks and of the audit.                                                 *)
(***************************************************************************)
EXTENDS ShadowScheduler, FiniteSetTheorems, TLAPS

USE ScheduleAssumption, InputAssumption DEF ScheduleAssumption, InputAssumption

\* What holds of a process past the gates, the load and the phase.
GateInv ==
    /\ Running => /\ bounds # NoSession /\ proc.cfg \in Configs
                  /\ proc.cfg.valid /\ proc.cfg.enabled /\ proc.cfg.flag
    /\ proc.pc \in {"cycle", "read", "stamp", "asleep", "last"} =>
           proc.signal \in Signals /\ AsOf[proc.signal] < Today
    /\ proc.pc \in {"read", "stamp"} =>
           /\ proc.phase \in {"entries", "exits"}
           /\ proc.phase = Phase(bounds, proc.at)

\* The keys of a process are the lines of the log, and its index never runs
\* ahead of them: a tick is counted after its line is there.
LogInv ==
    /\ IndicesContiguous /\ TicksBacked
    /\ Running => /\ proc.pc # "load" \/ proc.index = 0
                  /\ proc.keys = 0..(Len(log) - 1) /\ proc.index <= Len(log)
    /\ proc.pc = "stamp" => proc.index + 1 <= Len(log)

\* The failures in a row are the last skips, all of the current index.
OutageInv ==
    /\ OutageIsSustained
    /\ Running => /\ Len(proc.skips) >= proc.fails
                  /\ \A i \in (Len(proc.skips) - proc.fails + 1)..Len(proc.skips) :
                         proc.skips[i] = proc.index

Replays(l) ==
    /\ l.decision = Decide(l.live, l.before, l.inFlight, l.phase)
    /\ l.phase = "exits" => l.decision.entries = {}

\* The first process of the day is the author of every line, and what it
\* stamps at its end is what the lines say.
AuditInv ==
    /\ \A i \in DOMAIN log : Replays(log[i])
    /\ starts = 0 => ~Running /\ log = <<>> /\ manifest.signal = None
    /\ starts = 1 /\ Running =>
           /\ proc.pc = "load" => log = <<>> /\ manifest.signal = None /\ proc.signal = None
           /\ Len(log) = IF proc.pc = "stamp" THEN proc.index + 1 ELSE proc.index
           /\ \A i \in DOMAIN log : log[i].signal = proc.signal /\ log[i].gate = proc.gate
           /\ log # <<>> \/ proc.pc \in {"read", "stamp"} => proc.gate # None
           /\ manifest.signal = None \/ manifest.status = "running"
    /\ starts = 1 /\ ~Running /\ manifest.signal # None /\ manifest.status # "running" =>
           /\ AsOf[manifest.signal] < Today
           /\ Len(log) = manifest.ticks
           /\ \A i \in DOMAIN log : /\ log[i].signal = manifest.signal
                                    /\ log[i].gate = manifest.gate
           /\ log # <<>> => manifest.gate # None

-----------------------------------------------------------------------------
(* Stamps and ends of cycles.                                              *)

Stampable(p) ==
    /\ p.run \in Nat /\ p.index \in Nat /\ p.counters \in Counters
    /\ p.signal \in Signals \cup {None} /\ p.gate \in Gates /\ p.skips \in Seq(Nat)

StampedFields == {"run", "index", "counters", "signal", "gate", "skips", "error"}

LEMMA DownType == Down \in Procs /\ Down.pc = "down" /\ NoManifest \in Manifests
<1>1. ZeroCounters \in Counters /\ NoTick \in Decisions
  BY DEF ZeroCounters, NoTick, Counters, Decisions
<1>2. <<>> \in Seq(Nat)
  OBVIOUS
<1>3. None \in Gates
  BY DEF Gates
<1>4. Down \in Procs
  BY <1>1, <1>2, <1>3 DEF Down, Procs
<1>5. NoManifest \in Manifests
  BY <1>1, <1>2, <1>3 DEF NoManifest, Manifests, Statuses
<1>. QED
  BY <1>4, <1>5 DEF Down

LEMMA StampFields ==
    ASSUME NEW p, Stampable(p), p.error = "none", NEW status \in Statuses, Stamp(p, status)
    PROVE  /\ manifest' \in Manifests /\ manifest'.error = "none"
           /\ manifest'.status = status /\ manifest'.ticks = p.index
           /\ manifest'.signal = p.signal /\ manifest'.gate = p.gate
BY DEF Stamp, Stampable, Manifests

LEMMA HaltFields ==
    ASSUME NEW h, Stampable(h), StampedFields \subseteq DOMAIN h,
           NEW error \in {"outage", "deadline", "fault"}, NEW status \in Statuses,
           Halt(h, status, error)
    PROVE  /\ proc' = Down
           /\ manifest' \in Manifests /\ manifest'.error = error
           /\ manifest'.status = status /\ manifest'.ticks = h.index
           /\ manifest'.signal = h.signal /\ manifest'.gate = h.gate
           /\ manifest'.skips = h.skips
<1>. DEFINE e == [h EXCEPT !.error = error]
<1>1. /\ e.run = h.run /\ e.index = h.index /\ e.counters = h.counters
      /\ e.signal = h.signal /\ e.gate = h.gate /\ e.skips = h.skips /\ e.error = error
  BY DEF StampedFields
<1>2. proc' = Down /\ Stamp(e, status)
  BY DEF Halt, StopsWith
<1>. HIDE DEF e
<1>3. manifest' = [status |-> status, run |-> h.run, ticks |-> h.index,
                   counters |-> h.counters, signal |-> h.signal, gate |-> h.gate,
                   skips |-> h.skips, error |-> error]
  BY <1>1, <1>2 DEF Stamp
<1>. QED
  BY <1>2, <1>3 DEF Stampable, Manifests

LEMMA EndCycleFields ==
    ASSUME NEW p \in Procs, p.cfg \in Configs, now \in 0..MaxTime, EndCycle(p)
    PROVE  /\ proc' \in Procs /\ proc'.pc \in {"asleep", "last"}
           /\ proc'.run = p.run /\ proc'.cfg = p.cfg /\ proc'.keys = p.keys
           /\ proc'.signal = p.signal /\ proc'.gate = p.gate
           /\ proc'.counters = p.counters /\ proc'.total = p.total
           /\ proc'.index = p.index /\ proc'.fails = p.fails /\ proc'.skips = p.skips
<1>. DEFINE n == IF p.cfg.cycles = 0 THEN 0 ELSE p.cycles + 1
            q == [p EXCEPT !.cycles = n]
<1>1. n \in Nat
  BY DEF Procs
<1>2. /\ q \in Procs /\ q.run = p.run /\ q.cfg = p.cfg /\ q.keys = p.keys
      /\ q.signal = p.signal /\ q.gate = p.gate /\ q.counters = p.counters
      /\ q.total = p.total /\ q.index = p.index /\ q.fails = p.fails
      /\ q.skips = p.skips /\ q.error = p.error
  BY <1>1 DEF Procs
<1>3. proc' = Sleep(q) \/ proc' = [Sleep(q) EXCEPT !.pc = "last"]
  BY DEF EndCycle
<1>. HIDE DEF n, q
<1>4. NextWake \in Nat /\ NoTick \in Decisions
  BY DEF NextWake, NoTick, Decisions, ZeroCounters, Counters
<1>5. Sleep(q) \in Procs
  <2>1. 0 \in 0..(MaxTries - 1) /\ 0 \in 0..Deadline /\ 0 \in Nat
    OBVIOUS
  <2>. HIDE DEF ScheduleAssumption, InputAssumption
  <2>. QED
    BY <1>2, <1>4, <2>1 DEF Sleep, Procs
<1>6. /\ Sleep(q).pc = "asleep" /\ Sleep(q).run = q.run /\ Sleep(q).cfg = q.cfg
      /\ Sleep(q).keys = q.keys /\ Sleep(q).signal = q.signal /\ Sleep(q).gate = q.gate
      /\ Sleep(q).counters = q.counters /\ Sleep(q).total = q.total
      /\ Sleep(q).index = q.index /\ Sleep(q).fails = q.fails
      /\ Sleep(q).skips = q.skips
  BY <1>2 DEF Sleep, Procs
<1>7. PICK pc \in {"asleep", "last"} : proc' = [Sleep(q) EXCEPT !.pc = pc]
  <2>1. Sleep(q) = [Sleep(q) EXCEPT !.pc = "asleep"]
    BY <1>5, <1>6 DEF Procs
  <2>. QED
    BY <1>3, <2>1
<1>. QED
  BY <1>2, <1>5, <1>6, <1>7 DEF Procs

-----------------------------------------------------------------------------
(* The kinds of steps: what each action does to the fields that the        *)
(* invariants read.                                                        *)

\* What a process carries from tick to tick.
Core(p) == <<p.keys, p.signal, p.counters, p.total, p.index, p.fails, p.skips>>

Typed == TypeOK /\ GateInv

StartKind ==
    /\ ~Running /\ starts' = starts + 1 /\ log' = log
    /\ \/ /\ proc' = Down /\ manifest'.ticks = 0 /\ manifest'.signal = None
          /\ manifest'.error = "none"
       \/ /\ manifest' = manifest /\ proc'.pc = "load" /\ proc'.gate = None
          /\ Core(proc') = <<LoadKeys, None, ZeroCounters, ZeroCounters, 0, 0, <<>> >>

LoadKind ==
    /\ proc.pc = "load" /\ starts' = starts /\ log' = log
    /\ manifest'.ticks = proc.index /\ manifest'.error = "none"
    /\ \/ proc' = Down /\ manifest'.signal = proc.signal
       \/ /\ proc'.pc = "cycle" /\ proc'.gate = proc.gate
          /\ \E v \in Signals :
                Core(proc') = <<proc.keys, v, proc.counters, proc.total, proc.index,
                                proc.fails, proc.skips>>
          /\ manifest'.status = "running"

QuietKind ==
    /\ starts' = starts /\ log' = log /\ manifest' = manifest
    /\ \/ proc' = Down
       \/ proc' = proc
       \/ /\ proc.pc \in {"cycle", "read", "asleep"}
          /\ proc'.pc \in {"cycle", "read", "asleep", "last"}
          /\ Core(proc') = Core(proc)
          /\ proc'.gate = proc.gate \/ proc.gate = None
          /\ proc'.pc = "read" => proc'.gate # None \/ (proc.pc = "read" /\ proc'.gate = proc.gate)

Stamped(index) ==
    manifest'.ticks = index /\ manifest'.signal = proc.signal /\ manifest'.gate = proc.gate

StopKind ==
    /\ proc.pc \in {"cycle", "read", "last"} /\ proc' = Down /\ starts' = starts /\ log' = log
    /\ Stamped(proc.index)
    /\ manifest'.status # "running" /\ manifest'.error # "outage"

SkipKind ==
    /\ proc.pc = "read" /\ starts' = starts /\ log' = log /\ Stamped(proc.index)
    /\ \/ /\ proc' = Down /\ manifest'.status # "running"
          /\ manifest'.error = "outage" => /\ proc.fails + 1 = MaxConsecutive
                                           /\ manifest'.skips = Append(proc.skips, proc.index)
       \/ /\ proc'.pc \in {"asleep", "last"} /\ proc'.gate = proc.gate
          /\ Core(proc') = <<proc.keys, proc.signal, proc.counters, proc.total, proc.index,
                             proc.fails + 1, Append(proc.skips, proc.index)>>
          /\ manifest'.status = "running" /\ manifest'.error = "none"

DecideKind ==
    /\ proc.pc = "read" /\ starts' = starts /\ manifest' = manifest
    /\ proc'.pc = "stamp" /\ proc'.gate = proc.gate
    /\ \E live \in LiveStates :
         LET line == Line(proc, live)
         IN  /\ line \in Lines
             /\ log' = AppendLine(line, proc.keys)
             /\ proc'.tick = line.decision
             /\ Core(proc') = <<proc.keys \cup {proc.index}, proc.signal, proc.counters,
                                Traded(proc.total, line.decision), proc.index,
                                proc.fails, proc.skips>>

TickKind ==
    /\ proc.pc = "stamp" /\ starts' = starts /\ log' = log /\ Stamped(proc.index + 1)
    /\ manifest'.error = "none" /\ manifest'.status = "running"
    /\ proc'.pc \in {"asleep", "last"} /\ proc'.gate = proc.gate
    /\ Core(proc') = <<proc.keys, proc.signal, proc.tick.counters, proc.total,
                       proc.index + 1, 0, proc.skips>>

LEMMA FieldTypes ==
    ASSUME Typed
    PROVE  /\ proc \in Procs /\ Stampable(proc) /\ proc.error = "none"
           /\ manifest \in Manifests /\ now \in 0..MaxTime
           /\ proc.index \in Nat /\ proc.fails \in 0..(MaxConsecutive - 1)
           /\ proc.skips \in Seq(Nat)
           /\ Running => proc.cfg \in Configs
BY DEF Typed, TypeOK, GateInv, Procs, Stampable

LEMMA InitTyped == Init => Typed
<1>. SUFFICES ASSUME Init PROVE Typed
  OBVIOUS
<1>1. TypeOK
  <2>1. <<>> \in Seq(Lines) /\ 0 \in 0..MaxTime /\ 0 \in 0..MaxStarts
    OBVIOUS
  <2>2. bounds \in Sessions /\ kill = FALSE /\ proc = Down /\ manifest = NoManifest
        /\ now = 0 /\ log = <<>> /\ starts = 0
    BY DEF Init
  <2>. QED
    BY <2>1, <2>2, DownType DEF TypeOK
<1>2. GateInv
  BY DownType DEF Init, GateInv, Running
<1>. QED
  BY <1>1, <1>2 DEF Typed

LEMMA DownGateInv == proc' = Down => GateInv'
BY DownType DEF GateInv, Running

LEMMA StartStep == ASSUME Typed, Start PROVE StartKind /\ Typed'
<1>1. PICK c \in Configs :
        LET p == [Down EXCEPT !.pc = "load", !.run = starts + 1, !.cfg = c,
                              !.keys = LoadKeys]
        IN  IF GateStatus(c) = "open"
            THEN proc' = p /\ UNCHANGED manifest
            ELSE StopsWith(p, GateStatus(c))
  BY DEF Start
<1>. DEFINE p == [Down EXCEPT !.pc = "load", !.run = starts + 1, !.cfg = c, !.keys = LoadKeys]
<1>2. LoadKeys \in SUBSET Nat /\ starts \in Nat /\ starts' \in 0..MaxStarts
  <2>1. starts \in 0..MaxStarts /\ starts < MaxStarts /\ starts' = starts + 1
    BY DEF Typed, TypeOK, Start
  <2>2. \A i \in DOMAIN log : log[i].index \in Nat
    <3>1. \A i \in DOMAIN log : log[i] \in Lines
      BY DEF Typed, TypeOK
    <3>. QED
      BY <3>1 DEF Lines
  <2>. QED
    BY <2>1, <2>2 DEF LoadKeys
<1>3. p \in Procs
  <2>1. starts + 1 \in Nat /\ c \in Configs \cup {None}
    BY <1>2
  <2>. HIDE DEF ScheduleAssumption, InputAssumption
  <2>. QED
    BY <1>2, <2>1, DownType DEF Procs
<1>4. /\ p.pc = "load" /\ p.cfg = c /\ p.gate = None /\ p.error = "none"
      /\ Core(p) = <<LoadKeys, None, ZeroCounters, ZeroCounters, 0, 0, <<>> >>
  BY DEF Down, Core
<1>5. /\ ~Running /\ starts' = starts + 1
      /\ UNCHANGED <<now, bounds, kill, log>>
  BY DEF Start
<1>6. CASE GateStatus(c) = "open"
  <2>1. proc' = p /\ manifest' = manifest
    BY <1>1, <1>6
  <2>2. c.valid /\ c.enabled /\ c.flag /\ bounds # NoSession
    BY <1>6 DEF GateStatus
  <2>3. GateInv'
    BY <1>4, <1>5, <2>1, <2>2 DEF GateInv, Running
  <2>4. TypeOK'
    BY <1>2, <1>3, <1>5, <2>1 DEF Typed, TypeOK
  <2>. QED
    BY <1>4, <1>5, <2>1, <2>3, <2>4 DEF StartKind, Typed
<1>7. CASE GateStatus(c) # "open"
  <2>1. proc' = Down /\ Stamp(p, GateStatus(c))
    BY <1>1, <1>7 DEF StopsWith
  <2>2. GateStatus(c) \in Statuses
    BY <1>7 DEF GateStatus, Statuses
  <2>3. Stampable(p) /\ p.index = 0 /\ p.signal = None
    BY <1>3, <1>4 DEF Procs, Stampable, Core
  <2>4. manifest' \in Manifests /\ manifest'.error = "none"
        /\ manifest'.ticks = 0 /\ manifest'.signal = None
    BY <1>4, <2>1, <2>2, <2>3, StampFields
  <2>5. TypeOK'
    BY <1>2, <1>5, <2>1, <2>4, DownType DEF Typed, TypeOK
  <2>. QED
    BY <1>5, <2>1, <2>4, <2>5, DownGateInv DEF StartKind, Typed
<1>. QED
  BY <1>6, <1>7

LEMMA LoadStep == ASSUME Typed, Load PROVE LoadKind /\ Typed'
<1>a. proc \in Procs /\ Stampable(proc) /\ proc.error = "none" /\ proc.pc = "load"
  BY FieldTypes DEF Load
<1>b. UNCHANGED <<now, bounds, kill, log, starts>>
  BY DEF Load
<1>1. CASE \E status \in {"aborted_class_a_leak", "aborted_class_a_unavailable"} :
              StopsWith(proc, status)
  <2>1. PICK status \in {"aborted_class_a_leak", "aborted_class_a_unavailable"} :
           StopsWith(proc, status)
    BY <1>1
  <2>2. status \in Statuses
    BY DEF Statuses
  <2>3. proc' = Down /\ manifest' \in Manifests /\ manifest'.error = "none"
        /\ manifest'.ticks = proc.index /\ manifest'.signal = proc.signal
    BY <1>a, <2>1, <2>2, StampFields DEF StopsWith
  <2>4. TypeOK'
    BY <1>b, <2>3, DownType DEF Typed, TypeOK
  <2>. QED
    BY <1>a, <1>b, <2>3, <2>4, DownGateInv DEF LoadKind, Typed
<1>2. ASSUME NEW v \in Signals, AsOf[v] < Today,
             Stamp([proc EXCEPT !.pc = "cycle", !.signal = v], "running"),
             proc' = [proc EXCEPT !.pc = "cycle", !.signal = v]
      PROVE  LoadKind /\ Typed'
  <2>1. /\ proc' \in Procs /\ proc'.pc = "cycle" /\ proc'.gate = proc.gate
        /\ proc'.error = "none" /\ proc'.cfg = proc.cfg /\ proc'.signal = v
        /\ Core(proc') = <<proc.keys, v, proc.counters, proc.total, proc.index,
                           proc.fails, proc.skips>>
    BY <1>a, <1>2 DEF Procs, Core
  <2>2. Stampable(proc') /\ Stamp(proc', "running") /\ "running" \in Statuses
    BY <1>2, <2>1 DEF Procs, Stampable, Statuses
  <2>3. manifest' \in Manifests /\ manifest'.error = "none"
        /\ manifest'.ticks = proc.index /\ manifest'.status = "running"
    <3>1. proc'.index = proc.index
      BY <1>a, <1>2 DEF Procs
    <3>2. \A p : Stampable(p) /\ p.error = "none" /\ Stamp(p, "running") =>
              /\ manifest' \in Manifests /\ manifest'.error = "none"
              /\ manifest'.status = "running" /\ manifest'.ticks = p.index
      BY <2>2, StampFields
    <3>. QED
      BY <2>1, <2>2, <3>1, <3>2
  <2>4. GateInv'
    BY <1>a, <1>b, <1>2, <2>1 DEF Typed, GateInv, Running
  <2>5. TypeOK'
    BY <1>b, <2>1, <2>3 DEF Typed, TypeOK
  <2>. QED
    BY <1>a, <1>b, <2>1, <2>3, <2>4, <2>5 DEF LoadKind, Typed
<1>. QED
  BY <1>1, <1>2 DEF Load

LEMMA CycleStep == ASSUME Typed, Cycle PROVE (QuietKind \/ StopKind) /\ Typed'
<1>a. /\ proc \in Procs /\ Stampable(proc) /\ proc.error = "none" /\ proc.pc = "cycle"
      /\ proc.cfg \in Configs /\ now \in 0..MaxTime
  BY FieldTypes DEF Cycle, Running
<1>b. UNCHANGED <<now, bounds, kill, log, starts>>
  BY DEF Cycle
<1>. DEFINE phase == Phase(bounds, now)
<1>1. CASE \E status \in {"halted_kill_switch", "completed"} :
              proc' = Down /\ Stamp(proc, status)
  <2>1. PICK status \in {"halted_kill_switch", "completed"} :
           proc' = Down /\ Stamp(proc, status)
    BY <1>1
  <2>2. status \in Statuses
    BY DEF Statuses
  <2>3. /\ manifest' \in Manifests /\ manifest'.error = "none" /\ manifest'.status = status
        /\ Stamped(proc.index)
    BY <1>a, <2>1, <2>2, StampFields DEF Stamped
  <2>4. TypeOK'
    BY <1>b, <2>1, <2>3, DownType DEF Typed, TypeOK
  <2>. QED
    BY <1>a, <1>b, <2>1, <2>3, <2>4, DownGateInv DEF StopKind, Typed
<1>2. CASE EndCycle(proc) /\ UNCHANGED manifest
  <2>1. /\ proc' \in Procs /\ proc'.pc \in {"asleep", "last"}
        /\ proc'.cfg = proc.cfg /\ Core(proc') = Core(proc) /\ proc'.gate = proc.gate
    BY <1>a, <1>2, EndCycleFields DEF Core
  <2>2. GateInv'
    <3>1. proc'.signal = proc.signal
      BY <2>1 DEF Core
    <3>. QED
      BY <1>a, <1>b, <2>1, <3>1 DEF Typed, GateInv, Running
  <2>3. TypeOK'
    BY <1>b, <1>2, <2>1 DEF Typed, TypeOK
  <2>. QED
    BY <1>a, <1>b, <1>2, <2>1, <2>2, <2>3 DEF QuietKind, Typed
<1>3. CASE /\ phase \in {"entries", "exits"} /\ UNCHANGED manifest
           /\ proc' = [proc EXCEPT !.pc = "read", !.at = now, !.phase = phase,
                                   !.tries = 0, !.left = Deadline,
                                   !.gate = IF @ = None THEN proc.cfg.gate ELSE @]
  <2>1. PICK gate \in Gates \ {None} :
          /\ gate = proc.gate \/ proc.gate = None
          /\ proc' = [proc EXCEPT !.pc = "read", !.at = now, !.phase = phase,
                                  !.tries = 0, !.left = Deadline, !.gate = gate]
    <3>1. proc.cfg.gate \in Gates \ {None} /\ proc.gate \in Gates
      BY <1>a DEF Gates, Procs
    <3>2. CASE proc.gate = None
      BY <1>3, <3>1, <3>2
    <3>3. CASE proc.gate # None
      BY <1>3, <3>1, <3>3
    <3>. QED
      BY <3>2, <3>3
  <2>2. 0 \in 0..(MaxTries - 1) /\ Deadline \in 0..Deadline /\ now \in Nat
    BY <1>a
  <2>3. /\ proc' \in Procs /\ proc'.pc = "read" /\ proc'.at = now /\ proc'.phase = phase
        /\ proc'.gate = gate /\ proc'.cfg = proc.cfg /\ proc'.signal = proc.signal
        /\ Core(proc') = Core(proc)
    <3>. HIDE DEF phase, ScheduleAssumption, InputAssumption
    <3>0. phase \in {"none", "entries", "exits"}
      BY <1>3
    <3>1. proc' \in Procs
      BY <1>a, <2>1, <2>2, <3>0 DEF Procs
    <3>. QED
      BY <1>a, <2>1, <3>1, SMTT(20) DEF Procs, Core
  <2>4. GateInv'
    BY <1>a, <1>b, <1>3, <2>3 DEF Typed, GateInv, Running
  <2>5. TypeOK'
    BY <1>b, <1>3, <2>3 DEF Typed, TypeOK
  <2>. QED
    BY <1>a, <1>b, <1>3, <2>1, <2>3, <2>4, <2>5 DEF QuietKind, Typed
<1>4. phase \in {"before", "settling", "closed", "entries", "exits"}
  BY DEF Phase
<1>. HIDE DEF phase
<1>5. \/ StopsWith(proc, "halted_kill_switch")
      \/ StopsWith(proc, "completed")
      \/ EndCycle(proc) /\ UNCHANGED manifest
      \/ /\ phase \in {"entries", "exits"} /\ UNCHANGED manifest
         /\ proc' = [proc EXCEPT !.pc = "read", !.at = now, !.phase = phase,
                                   !.tries = 0, !.left = Deadline,
                                   !.gate = IF @ = None THEN proc.cfg.gate ELSE @]
  BY <1>4, Zenon DEF Cycle, phase
<1>. QED
  BY <1>1, <1>2, <1>3, <1>5 DEF StopsWith

\* Waking and the environment: nothing is stamped.
LEMMA QuietStep ==
    ASSUME Typed, Wake \/ Clock \/ ToggleKill \/ Crash \/ UNCHANGED vars
    PROVE  QuietKind /\ Typed'
<1>a. proc \in Procs /\ now \in 0..MaxTime
  BY FieldTypes
<1>1. CASE Wake
  <2>1. /\ proc' \in Procs /\ proc'.pc = "cycle" /\ proc.pc = "asleep"
        /\ proc'.gate = proc.gate /\ proc'.cfg = proc.cfg /\ proc'.signal = proc.signal
        /\ Core(proc') = Core(proc)
    BY <1>1, <1>a DEF Wake, Procs, Core
  <2>2. UNCHANGED <<now, bounds, kill, log, manifest, starts>>
    BY <1>1 DEF Wake
  <2>3. GateInv'
    BY <2>1, <2>2 DEF Typed, GateInv, Running
  <2>4. TypeOK'
    BY <2>1, <2>2 DEF Typed, TypeOK
  <2>. QED
    BY <2>1, <2>2, <2>3, <2>4 DEF QuietKind, Typed
<1>2. CASE Clock \/ ToggleKill \/ UNCHANGED vars
  <2>1. UNCHANGED <<bounds, proc, log, manifest, starts>>
    BY <1>2 DEF Clock, ToggleKill, vars
  <2>2. now' \in 0..MaxTime /\ kill' \in BOOLEAN
    <3>1. now \in 0..MaxTime /\ kill \in BOOLEAN
      BY DEF Typed, TypeOK
    <3>2. CASE Clock
      BY <3>1, <3>2 DEF Clock
    <3>3. CASE ToggleKill \/ UNCHANGED vars
      BY <3>1, <3>3 DEF ToggleKill, vars
    <3>. QED
      BY <1>2, <3>2, <3>3
  <2>3. GateInv'
    BY <2>1 DEF Typed, GateInv, Running
  <2>4. TypeOK'
    BY <2>1, <2>2 DEF Typed, TypeOK
  <2>. QED
    BY <2>1, <2>3, <2>4 DEF QuietKind, Typed
<1>3. CASE Crash
  <2>1. proc' = Down /\ UNCHANGED <<now, bounds, kill, log, manifest, starts>>
    BY <1>3 DEF Crash
  <2>2. TypeOK'
    BY <2>1, DownType DEF Typed, TypeOK
  <2>. QED
    BY <2>1, <2>2, DownGateInv DEF QuietKind, Typed
<1>. QED
  BY <1>1, <1>2, <1>3

LEMMA SkipTickStep ==
    ASSUME Typed, proc.pc = "read", SkipTick(proc),
           UNCHANGED <<now, bounds, kill, log, starts>>
    PROVE  SkipKind /\ Typed'
<1>a. /\ proc \in Procs /\ proc.cfg \in Configs /\ now \in 0..MaxTime
      /\ proc.error = "none" /\ proc.index \in Nat /\ proc.skips \in Seq(Nat)
      /\ proc.fails \in 0..(MaxConsecutive - 1)
  BY FieldTypes DEF Running
<1>. DEFINE skips == Append(proc.skips, proc.index)
            q == [proc EXCEPT !.fails = proc.fails + 1, !.skips = skips]
<1>1. skips \in Seq(Nat)
  BY <1>a
<1>2. /\ q.fails = proc.fails + 1 /\ q.cfg = proc.cfg /\ q.error = "none"
      /\ q.skips = skips /\ q.gate = proc.gate /\ q.signal = proc.signal
      /\ Stampable(q) /\ StampedFields \subseteq DOMAIN q /\ q.index = proc.index
      /\ Core(q) = <<proc.keys, proc.signal, proc.counters, proc.total, proc.index,
                     proc.fails + 1, skips>>
  <2>. HIDE DEF skips, ScheduleAssumption, InputAssumption
  <2>. QED
    BY <1>a, <1>1 DEF Procs, Core, Stampable, StampedFields
<1>3. [proc EXCEPT !.fails = @ + 1, !.index = SkipIndex(proc),
                   !.skips = Append(@, proc.index)] = q
  BY <1>a DEF SkipIndex, Procs
<1>4. IF TooMany(q.fails) THEN Halt(q, "halted_tick_error", "outage")
                          ELSE EndCycle(q) /\ Stamp(q, "running")
  BY <1>3 DEF SkipTick
<1>5. CASE TooMany(q.fails)
  <2>1. Halt(q, "halted_tick_error", "outage")
    BY <1>4, <1>5
  <2>2. "halted_tick_error" \in Statuses
    BY DEF Statuses
  <2>3. /\ proc' = Down /\ manifest' \in Manifests /\ manifest'.error = "outage"
        /\ manifest'.status = "halted_tick_error" /\ manifest'.skips = skips
        /\ Stamped(proc.index)
    <3>. HIDE DEF skips, q
    <3>. QED
      BY <1>2, <2>1, <2>2, HaltFields DEF Stamped
  <2>4. proc.fails + 1 = MaxConsecutive
    <3>1. TooMany(proc.fails + 1)
      BY <1>2, <1>5
    <3>. QED
      BY <1>a, <3>1 DEF TooMany
  <2>5. TypeOK'
    BY <2>3, DownType DEF Typed, TypeOK
  <2>. QED
    BY <2>3, <2>4, <2>5, DownGateInv DEF SkipKind, Typed
<1>6. CASE ~TooMany(q.fails)
  <2>1. q \in Procs
    <3>1. proc.fails + 1 \in 0..(MaxConsecutive - 1)
      <4>1. ~TooMany(proc.fails + 1)
        BY <1>2, <1>6
      <4>. QED
        BY <1>a, <4>1 DEF TooMany
    <3>. HIDE DEF skips, ScheduleAssumption, InputAssumption
    <3>. QED
      BY <1>a, <1>1, <3>1 DEF Procs
  <2>. HIDE DEF q, skips
  <2>2. /\ Stamp(q, "running") /\ proc' \in Procs /\ proc'.pc \in {"asleep", "last"}
        /\ proc'.cfg = q.cfg /\ proc'.gate = q.gate /\ proc'.signal = q.signal
        /\ Core(proc') = Core(q)
    BY <1>a, <1>2, <1>4, <1>6, <2>1, EndCycleFields DEF Core
  <2>3. "running" \in Statuses
    BY DEF Statuses
  <2>4. /\ manifest' \in Manifests /\ manifest'.error = "none"
        /\ manifest'.status = "running" /\ Stamped(proc.index)
    BY <1>2, <2>2, <2>3, StampFields DEF Stamped
  <2>5. TypeOK'
    BY <2>2, <2>4 DEF Typed, TypeOK
  <2>6. GateInv'
    BY <1>a, <1>2, <2>2 DEF Typed, GateInv, Running
  <2>. QED
    BY <1>2, <2>2, <2>4, <2>5, <2>6 DEF SkipKind, Typed, skips
<1>. QED
  BY <1>5, <1>6

LEMMA HaltStep ==
    ASSUME Typed, proc.pc = "read", NEW error \in {"deadline", "fault"},
           Halt(proc, "halted_tick_error", error),
           UNCHANGED <<now, bounds, kill, log, starts>>
    PROVE  StopKind /\ Typed'
<1>1. Stampable(proc) /\ StampedFields \subseteq DOMAIN proc
  BY FieldTypes DEF Procs, StampedFields
<1>2. "halted_tick_error" \in Statuses
  BY DEF Statuses
<1>4. /\ proc' = Down /\ manifest' \in Manifests /\ manifest'.error = error
      /\ manifest'.status = "halted_tick_error" /\ Stamped(proc.index)
  BY <1>1, <1>2, HaltFields DEF Stamped
<1>5. TypeOK'
  BY <1>4, DownType DEF Typed, TypeOK
<1>. QED
  BY <1>4, <1>5, DownGateInv DEF StopKind, Typed

LEMMA ReadStep ==
    ASSUME Typed, ReadFails \/ TickRaises \/ ShadowViolation
    PROVE  (QuietKind \/ StopKind \/ SkipKind) /\ Typed'
<1>a. /\ proc \in Procs /\ Stampable(proc) /\ proc.error = "none" /\ proc.pc = "read"
      /\ UNCHANGED <<now, bounds, kill, log, starts>>
  BY FieldTypes DEF ReadFails, TickRaises, ShadowViolation
<1>1. CASE SkipTick(proc)
  BY <1>a, <1>1, SkipTickStep
<1>2. CASE Halt(proc, "halted_tick_error", "deadline") \/ Halt(proc, "halted_tick_error", "fault")
  BY <1>a, <1>2, HaltStep
<1>3. CASE StopsWith(proc, "halted_shadow_violation")
  <2>1. "halted_shadow_violation" \in Statuses
    BY DEF Statuses
  <2>2. /\ proc' = Down /\ manifest' \in Manifests /\ manifest'.error = "none"
        /\ manifest'.status = "halted_shadow_violation" /\ Stamped(proc.index)
    BY <1>a, <1>3, <2>1, StampFields DEF StopsWith, Stamped
  <2>3. TypeOK'
    BY <1>a, <2>2, DownType DEF Typed, TypeOK
  <2>. QED
    BY <1>a, <2>2, <2>3, DownGateInv DEF StopKind, Typed
<1>4. ASSUME NEW remaining \in 0..proc.left, NEW wait \in 0..(Deadline + 1),
             ~(proc.tries + 1 = MaxTries \/ wait > remaining),
             NEW left \in 0..(remaining - wait),
             proc' = [proc EXCEPT !.tries = @ + 1, !.left = left], UNCHANGED manifest
      PROVE  QuietKind /\ Typed'
  <2>1. proc.tries \in 0..(MaxTries - 1) /\ proc.left \in 0..Deadline
    BY <1>a DEF Procs
  <2>2. proc.tries + 1 \in 0..(MaxTries - 1) /\ left \in 0..Deadline
    BY <1>4, <2>1
  <2>3. /\ proc' \in Procs /\ proc'.pc = "read" /\ proc'.at = proc.at
        /\ proc'.phase = proc.phase /\ proc'.cfg = proc.cfg /\ proc'.signal = proc.signal
        /\ proc'.gate = proc.gate /\ Core(proc') = Core(proc)
    <3>. HIDE DEF ScheduleAssumption, InputAssumption
    <3>. QED
      BY <1>a, <1>4, <2>2 DEF Procs, Core
  <2>4. GateInv'
    BY <1>a, <2>3 DEF Typed, GateInv, Running
  <2>5. TypeOK'
    BY <1>a, <1>4, <2>3 DEF Typed, TypeOK
  <2>. QED
    BY <1>a, <1>4, <2>3, <2>4, <2>5 DEF QuietKind, Typed
<1>5. CASE ReadFails
  <2>1. PICK remaining \in 0..proc.left, wait \in 0..(Deadline + 1) :
         IF proc.tries + 1 = MaxTries \/ wait > remaining
         THEN SkipTick(proc)
         ELSE \E left \in 0..(remaining - wait) :
                IF left = 0
                THEN Halt(proc, "halted_tick_error", "deadline")
                ELSE /\ proc' = [proc EXCEPT !.tries = @ + 1, !.left = left]
                     /\ UNCHANGED manifest
    BY <1>5 DEF ReadFails
  <2>. QED
    BY <1>1, <1>2, <1>4, <2>1
<1>. QED
  BY <1>2, <1>3, <1>5 DEF TickRaises, ShadowViolation

\* One decision: the entries withdrawn after the cutoff leave no trace in the
\* counters, the exits always pass, and the cap holds.
LEMMA DecideFacts ==
    ASSUME NEW live \in LiveStates, NEW counters \in Counters, NEW inFlight, NEW phase
    PROVE  LET d == Decide(live, counters, inFlight, phase)
           IN  /\ d \in Decisions /\ d.exits = live.exits
               /\ phase = "exits" => d.entries = {}
               /\ d.counters = Traded(counters, d)
               /\ counters.entries <= MaxEntries => d.counters.entries <= MaxEntries
<1>. DEFINE fresh == live.want \ inFlight
            E == IF counters.entries + Cardinality(fresh) <= MaxEntries THEN fresh ELSE {}
            n == Cardinality(E)
            m == Cardinality(live.exits)
            c == [entries  |-> counters.entries + n, turnover |-> counters.turnover + n + m]
            t == [entries |-> E, exits |-> live.exits, counters |-> c]
            w == [entries |-> {}, exits |-> live.exits,
                  counters |-> [entries  |-> LessAtLeast(c.entries, n, 0),
                                turnover |-> LessAtLeast(c.turnover, n, counters.turnover)]]
<1>1. counters.entries \in Nat /\ counters.turnover \in Nat
      /\ counters = [entries |-> counters.entries, turnover |-> counters.turnover]
  BY DEF Counters
<1>2. E \in SUBSET Parents /\ live.exits \in SUBSET Exits
  OBVIOUS
<1>3. n \in Nat /\ m \in Nat /\ Cardinality({}) = 0
  <2>1. IsFiniteSet(E) /\ IsFiniteSet(live.exits)
    BY <1>2, FS_Subset
  <2>. QED
    BY <2>1, FS_CardinalityType, FS_EmptySet
<1>4. counters.entries <= MaxEntries => counters.entries + n <= MaxEntries
  BY <1>1, <1>3
<1>5. Decide(live, counters, inFlight, phase) = IF phase # "exits" THEN t ELSE w
  BY DEF Decide, WindowPolicy, TickRunner
<1>. HIDE DEF fresh, E, n, m
<1>6. /\ LessAtLeast(counters.entries + n, n, 0) = counters.entries
      /\ LessAtLeast(counters.turnover + n + m, n, counters.turnover) = counters.turnover + m
  BY <1>1, <1>3 DEF LessAtLeast
<1>7. w = [entries |-> {}, exits |-> live.exits,
           counters |-> [entries  |-> counters.entries, turnover |-> counters.turnover + m]]
  BY <1>6
<1>8. /\ t \in Decisions /\ t.exits = live.exits
      /\ t.counters = Traded(counters, t)
  BY <1>1, <1>2, <1>3 DEF Decisions, Counters, Traded, n, m
<1>9. /\ w \in Decisions /\ w.exits = live.exits /\ w.entries = {}
      /\ w.counters = Traded(counters, w)
  BY <1>1, <1>2, <1>3, <1>7 DEF Decisions, Counters, Traded, m
<1>10. t.counters.entries = counters.entries + n /\ w.counters.entries = counters.entries
  BY <1>7
<1>. QED
  BY <1>1, <1>4, <1>5, <1>8, <1>9, <1>10

LEMMA RunTickStep == ASSUME Typed, RunTick PROVE DecideKind /\ Typed'
<1>a. /\ proc \in Procs /\ proc.pc = "read" /\ proc.cfg \in Configs
      /\ proc.signal \in Signals /\ proc.phase \in {"entries", "exits"}
      /\ UNCHANGED <<now, bounds, kill, manifest, starts>>
  BY FieldTypes DEF RunTick, Typed, GateInv, Running
<1>b. /\ proc.counters \in Counters /\ proc.total \in Counters /\ proc.index \in Nat
      /\ proc.seen \in SUBSET (Parents \cup Exits) /\ proc.keys \in SUBSET Nat
      /\ proc.run \in Nat /\ proc.at \in Nat /\ proc.gate \in Gates
  BY <1>a DEF Procs
<1>1. PICK live \in LiveStates :
         /\ log' = AppendLine(Line(proc, live), proc.keys)
         /\ proc' = [proc EXCEPT !.pc = "stamp", !.tick = Line(proc, live).decision,
                                 !.keys = @ \cup {Line(proc, live).index},
                                 !.total = Traded(@, Line(proc, live).decision)]
  BY DEF RunTick
<1>. DEFINE line == Line(proc, live)
            d == line.decision
<1>2. d \in Decisions /\ line.index = proc.index
  BY <1>b, DecideFacts DEF Line
<1>3. line \in Lines
  <2>1. proc.seen \cup live.book \in SUBSET (Parents \cup Exits)
    BY <1>b
  <2>2. line = [index |-> proc.index, run |-> proc.run, at |-> proc.at,
                phase |-> proc.phase, signal |-> proc.signal, gate |-> proc.gate,
                live |-> live, inFlight |-> proc.seen \cup live.book,
                before |-> proc.counters, decision |-> d]
    BY DEF Line
  <2>. HIDE DEF line, d, ScheduleAssumption, InputAssumption
  <2>. QED
    BY <1>a, <1>b, <1>2, <2>1, <2>2 DEF Lines
<1>4. Traded(proc.total, d) \in Counters
  <2>1. IsFiniteSet(d.entries) /\ IsFiniteSet(d.exits)
    BY <1>2, FS_Subset DEF Decisions
  <2>2. Cardinality(d.entries) \in Nat /\ Cardinality(d.exits) \in Nat
    BY <2>1, FS_CardinalityType
  <2>. QED
    BY <1>b, <2>2 DEF Traded, Counters
<1>. HIDE DEF line, d
<1>5. /\ proc' \in Procs /\ proc'.pc = "stamp" /\ proc'.tick = d /\ proc'.gate = proc.gate
      /\ proc'.cfg = proc.cfg /\ proc'.signal = proc.signal /\ proc'.at = proc.at
      /\ proc'.phase = proc.phase
      /\ Core(proc') = <<proc.keys \cup {proc.index}, proc.signal, proc.counters,
                         Traded(proc.total, d), proc.index, proc.fails, proc.skips>>
  <2>1. proc' = [proc EXCEPT !.pc = "stamp", !.tick = d, !.keys = @ \cup {proc.index},
                             !.total = Traded(proc.total, d)]
    BY <1>a, <1>1, <1>2 DEF Procs, line, d
  <2>. HIDE DEF ScheduleAssumption, InputAssumption
  <2>. QED
    BY <1>a, <1>b, <1>2, <1>4, <2>1 DEF Procs, Core
<1>6. GateInv'
  BY <1>a, <1>5 DEF Typed, GateInv, Running
<1>7. log' \in Seq(Lines)
  BY <1>1, <1>3 DEF AppendLine, Typed, TypeOK, line
<1>8. TypeOK'
  BY <1>a, <1>5, <1>7 DEF Typed, TypeOK
<1>. QED
  BY <1>a, <1>1, <1>3, <1>5, <1>6, <1>8 DEF DecideKind, Typed, line, d

LEMMA StampTickStep == ASSUME Typed, StampTick PROVE TickKind /\ Typed'
<1>a. /\ proc \in Procs /\ proc.pc = "stamp" /\ proc.cfg \in Configs /\ now \in 0..MaxTime
      /\ proc.error = "none" /\ UNCHANGED <<now, bounds, kill, log, starts>>
  BY FieldTypes DEF StampTick, Running
<1>. DEFINE p == AfterTick(proc)
<1>1. /\ p \in Procs /\ Stampable(p) /\ p.error = "none" /\ p.cfg = proc.cfg
      /\ p.index = proc.index + 1 /\ p.signal = proc.signal /\ p.gate = proc.gate
      /\ Core(p) = <<proc.keys, proc.signal, proc.tick.counters, proc.total,
                     proc.index + 1, 0, proc.skips>>
  <2>1. 0 \in 0..(MaxConsecutive - 1) /\ proc.index + 1 \in Nat
    <3>1. proc.index \in Nat
      BY FieldTypes
    <3>. QED
      BY <3>1
  <2>2. /\ proc.tick.counters \in Counters
        /\ proc.seen \cup proc.tick.entries \cup proc.tick.exits \in SUBSET (Parents \cup Exits)
    BY <1>a DEF Procs, Decisions
  <2>. HIDE DEF ScheduleAssumption, InputAssumption
  <2>3. p \in Procs
    BY <1>a, <2>1, <2>2 DEF AfterTick, Procs
  <2>4. /\ p.error = proc.error /\ p.cfg = proc.cfg
        /\ p.index = proc.index + 1 /\ p.signal = proc.signal /\ p.gate = proc.gate
        /\ Core(p) = <<proc.keys, proc.signal, proc.tick.counters, proc.total,
                       proc.index + 1, 0, proc.skips>>
    BY <1>a DEF AfterTick, Procs, Core
  <2>5. Stampable(p)
    BY <2>3 DEF Stampable, Procs
  <2>. QED
    BY <1>a, <2>3, <2>4, <2>5
<1>2. EndCycle(p) /\ Stamp(p, "running")
  BY DEF StampTick
<1>. HIDE DEF p
<1>3. /\ proc' \in Procs /\ proc'.pc \in {"asleep", "last"}
      /\ proc'.cfg = p.cfg /\ proc'.gate = p.gate /\ proc'.signal = p.signal
      /\ Core(proc') = Core(p)
  BY <1>a, <1>1, <1>2, EndCycleFields DEF Core
<1>4. "running" \in Statuses
  BY DEF Statuses
<1>5. /\ manifest' \in Manifests /\ manifest'.error = "none"
      /\ manifest'.status = "running" /\ Stamped(proc.index + 1)
  BY <1>1, <1>2, <1>4, StampFields DEF Stamped
<1>6. TypeOK'
  BY <1>a, <1>3, <1>5 DEF Typed, TypeOK
<1>7. GateInv'
  BY <1>a, <1>1, <1>3 DEF Typed, GateInv, Running
<1>. QED
  BY <1>a, <1>1, <1>3, <1>5, <1>6, <1>7 DEF TickKind, Typed

\* The stamp after the last cycle.
LEMMA LastStampStep == ASSUME Typed, LastStamp PROVE StopKind /\ Typed'
<1>1. /\ Stampable(proc) /\ proc.error = "none" /\ proc.pc = "last"
      /\ proc' = Down /\ Stamp(proc, "stopped_max_cycles")
      /\ UNCHANGED <<now, bounds, kill, log, starts>>
  BY FieldTypes DEF LastStamp, StopsWith
<1>2. "stopped_max_cycles" \in Statuses
  BY DEF Statuses
<1>3. /\ manifest' \in Manifests /\ manifest'.error = "none"
      /\ manifest'.status = "stopped_max_cycles" /\ Stamped(proc.index)
  BY <1>1, <1>2, StampFields DEF Stamped
<1>4. TypeOK'
  BY <1>1, <1>3, DownType DEF Typed, TypeOK
<1>. QED
  BY <1>1, <1>3, <1>4, DownGateInv DEF StopKind, Typed

LEMMA Kinds ==
    ASSUME Typed, [Next]_vars
    PROVE  /\ \/ StartKind \/ LoadKind \/ QuietKind \/ StopKind \/ SkipKind
              \/ DecideKind \/ TickKind
           /\ Typed' /\ bounds' = bounds
<1>1. bounds' = bounds
  BY DEF Next, Work, Start, Load, Cycle, Wake, ReadFails, TickRaises, ShadowViolation,
     RunTick, StampTick, LastStamp, Clock, ToggleKill, Crash, vars
<1>. QED
  BY <1>1, StartStep, LoadStep, CycleStep, QuietStep, ReadStep, RunTickStep, StampTickStep,
     LastStampStep
  DEF Next, Work

\* TypeCorrect: the shapes of the process, the log and the manifest hold in
\* every state (TypeOK), for any calendar, configurations and retry budget.
THEOREM TypeCorrect == Spec => []TypeOK
<1>1. Typed => TypeOK
  BY DEF Typed
<1>. QED
  BY <1>1, InitTyped, Kinds, PTL DEF Spec

-----------------------------------------------------------------------------
(* The log.                                                                *)

LEMMA DownNotRunning == proc' = Down => ~Running' /\ proc'.pc = "down"
BY DownType DEF Running

LEMMA InitLogInv == Init => LogInv
BY DownType DEF Init, LogInv, IndicesContiguous, TicksBacked, Running, NoManifest

LEMMA StepLogInv == Typed /\ LogInv /\ [Next]_vars => LogInv'
<1>. SUFFICES ASSUME Typed, LogInv, [Next]_vars PROVE LogInv'
  OBVIOUS
<1>a. log \in Seq(Lines) /\ Len(log) \in Nat /\ proc.index \in Nat /\ DOMAIN log = 1..Len(log)
  BY FieldTypes DEF Typed, TypeOK
<1>1. CASE StartKind
  <2>1. /\ log' = log /\ manifest'.ticks <= Len(log)
    BY <1>1, <1>a DEF StartKind, LogInv, TicksBacked
  <2>2. LoadKeys = 0..(Len(log) - 1)
    <3>1. \A k \in 0..(Len(log) - 1) : k + 1 \in DOMAIN log /\ log[k + 1].index = k
      BY <1>a DEF LogInv, IndicesContiguous
    <3>2. \A i \in DOMAIN log : log[i].index \in 0..(Len(log) - 1)
      BY <1>a DEF LogInv, IndicesContiguous
    <3>3. LoadKeys \subseteq 0..(Len(log) - 1)
      BY <3>2 DEF LoadKeys
    <3>4. 0..(Len(log) - 1) \subseteq LoadKeys
      BY <3>1 DEF LoadKeys
    <3>. QED
      BY <3>3, <3>4
  <2>3. CASE proc' = Down
    BY <2>1, <2>3, DownNotRunning DEF LogInv, IndicesContiguous, TicksBacked
  <2>4. CASE proc' # Down
    <3>1. proc'.pc = "load" /\ proc'.keys = LoadKeys /\ proc'.index = 0
      BY <1>1, <2>4 DEF StartKind, Core
    <3>. QED
      BY <1>a, <2>1, <2>2, <3>1 DEF LogInv, IndicesContiguous, TicksBacked
  <2>. QED
    BY <2>3, <2>4
<1>2. CASE LoadKind
  <2>1. log' = log /\ manifest'.ticks = 0 /\ proc.index = 0 /\ proc.keys = 0..(Len(log) - 1)
    BY <1>2 DEF LoadKind, LogInv, Running
  <2>2. CASE proc' = Down
    BY <1>a, <2>1, <2>2, DownNotRunning DEF LogInv, IndicesContiguous, TicksBacked
  <2>3. CASE proc' # Down
    <3>1. proc'.pc = "cycle" /\ proc'.keys = proc.keys /\ proc'.index = proc.index
      BY <1>2, <2>3 DEF LoadKind, Core
    <3>. QED
      BY <1>a, <2>1, <3>1 DEF LogInv, IndicesContiguous, TicksBacked
  <2>. QED
    BY <2>2, <2>3
<1>3. CASE QuietKind
  <2>1. log' = log /\ manifest' = manifest
    BY <1>3 DEF QuietKind
  <2>2. CASE proc' = Down
    BY <2>1, <2>2, DownNotRunning DEF LogInv, IndicesContiguous, TicksBacked
  <2>3. CASE proc' = proc
    BY <2>1, <2>3 DEF LogInv, IndicesContiguous, TicksBacked, Running
  <2>4. CASE /\ proc.pc \in {"cycle", "read", "asleep"}
             /\ proc'.pc \in {"cycle", "read", "asleep", "last"}
             /\ Core(proc') = Core(proc)
    BY <2>1, <2>4 DEF LogInv, IndicesContiguous, TicksBacked, Running, Core
  <2>. QED
    BY <1>3, <2>2, <2>3, <2>4 DEF QuietKind
<1>4. CASE StopKind
  <2>1. log' = log /\ proc' = Down /\ manifest'.ticks = proc.index /\ proc.index <= Len(log)
    BY <1>4 DEF StopKind, Stamped, LogInv, Running
  <2>. QED
    BY <2>1, DownNotRunning DEF LogInv, IndicesContiguous, TicksBacked
<1>5. CASE SkipKind
  <2>1. /\ log' = log /\ manifest'.ticks = proc.index /\ proc.index <= Len(log)
        /\ proc.keys = 0..(Len(log) - 1)
    BY <1>5 DEF SkipKind, Stamped, LogInv, Running
  <2>2. CASE proc' = Down
    BY <2>1, <2>2, DownNotRunning DEF LogInv, IndicesContiguous, TicksBacked
  <2>3. CASE proc' # Down
    <3>1. proc'.pc \in {"asleep", "last"} /\ proc'.keys = proc.keys /\ proc'.index = proc.index
      BY <1>5, <2>3 DEF SkipKind, Core
    <3>. QED
      BY <2>1, <3>1 DEF LogInv, IndicesContiguous, TicksBacked
  <2>. QED
    BY <2>2, <2>3
<1>6. CASE DecideKind
  <2>1. PICK line \in Lines :
          /\ line.index = proc.index
          /\ log' = AppendLine(line, proc.keys)
          /\ proc'.keys = proc.keys \cup {proc.index} /\ proc'.index = proc.index
    BY <1>6 DEF DecideKind, Core, Line
  <2>2. /\ proc.pc = "read" /\ proc'.pc = "stamp" /\ manifest' = manifest
        /\ proc.keys = 0..(Len(log) - 1) /\ proc.index <= Len(log)
    BY <1>6 DEF DecideKind, LogInv, Running
  <2>3. CASE proc.index \in proc.keys
    <3>1. log' = log /\ proc'.keys = proc.keys /\ proc.index + 1 <= Len(log)
      BY <1>a, <2>1, <2>2, <2>3 DEF AppendLine
    <3>. QED
      BY <2>1, <2>2, <3>1 DEF LogInv, IndicesContiguous, TicksBacked
  <2>4. CASE proc.index \notin proc.keys
    <3>1. log' = Append(log, line) /\ proc.index = Len(log)
      <4>1. log' = Append(log, line)
        BY <2>1, <2>4 DEF AppendLine
      <4>2. proc.index = Len(log)
        BY <1>a, <2>2, <2>4
      <4>. QED
        BY <4>1, <4>2
    <3>2. /\ Len(log') = Len(log) + 1 /\ DOMAIN log' = 1..(Len(log) + 1)
          /\ \A i \in 1..Len(log) : log'[i] = log[i]
          /\ log'[Len(log) + 1] = line
      BY <1>a, <3>1
    <3>3. IndicesContiguous'
      BY <1>a, <2>1, <3>1, <3>2 DEF LogInv, IndicesContiguous
    <3>4. TicksBacked'
      BY <1>a, <2>2, <3>2, FieldTypes DEF LogInv, TicksBacked, Manifests
    <3>5. proc'.keys = 0..(Len(log') - 1)
      BY <1>a, <2>1, <2>2, <3>1, <3>2
    <3>. QED
      BY <1>a, <2>1, <2>2, <3>1, <3>2, <3>3, <3>4, <3>5 DEF LogInv
  <2>. QED
    BY <2>3, <2>4
<1>7. CASE TickKind
  <2>1. /\ log' = log /\ manifest'.ticks = proc.index + 1 /\ proc.index + 1 <= Len(log)
        /\ proc.keys = 0..(Len(log) - 1)
    BY <1>7 DEF TickKind, Stamped, LogInv, Running
  <2>2. /\ proc'.pc \in {"asleep", "last"} /\ proc'.keys = proc.keys
        /\ proc'.index = proc.index + 1
    BY <1>7 DEF TickKind, Core
  <2>. QED
    BY <2>1, <2>2 DEF LogInv, IndicesContiguous, TicksBacked
<1>. QED
  BY <1>1, <1>2, <1>3, <1>4, <1>5, <1>6, <1>7, Kinds

\* The invariant of the log, once.
LEMMA LogInvariant == Spec => [](Typed /\ LogInv)
BY InitTyped, InitLogInv, Kinds, StepLogInv, PTL DEF Spec

\* ContiguousCorrect: IndicesContiguous for any number of restarts, skipped
\* ticks and crashes between the append and the stamp.
THEOREM ContiguousCorrect == Spec => []IndicesContiguous
<1>1. LogInv => IndicesContiguous
  BY DEF LogInv
<1>. QED
  BY <1>1, LogInvariant, PTL

\* TicksBackedCorrect: TicksBacked for any number of restarts, skipped ticks
\* and crashes.
THEOREM TicksBackedCorrect == Spec => []TicksBacked
<1>1. LogInv => TicksBacked
  BY DEF LogInv
<1>. QED
  BY <1>1, LogInvariant, PTL

-----------------------------------------------------------------------------
(* The envelope counters and the entry window.                             *)

LEMMA InitCounters == Init => CountersMatchDecided
BY DEF Init, CountersMatchDecided, Down, ZeroCounters

LEMMA StepCounters == Typed /\ CountersMatchDecided /\ [Next]_vars => CountersMatchDecided'
<1>. SUFFICES ASSUME Typed, CountersMatchDecided, [Next]_vars PROVE CountersMatchDecided'
  OBVIOUS
<1>1. CASE proc' = Down
  BY <1>1 DEF CountersMatchDecided, Down, ZeroCounters
<1>2. CASE StartKind /\ proc' # Down
  <2>1. proc'.pc = "load" /\ proc'.counters = ZeroCounters /\ proc'.total = ZeroCounters
    BY <1>2 DEF StartKind, Core
  <2>. QED
    BY <2>1 DEF CountersMatchDecided, ZeroCounters
<1>3. CASE (LoadKind \/ SkipKind) /\ proc' # Down
  <2>1. proc.pc # "stamp" /\ proc'.pc # "stamp" /\ proc'.counters = proc.counters
        /\ proc'.total = proc.total
    BY <1>3 DEF LoadKind, SkipKind, Core
  <2>. QED
    BY <2>1 DEF CountersMatchDecided
<1>4. CASE QuietKind /\ proc' # Down
  <2>1. CASE proc' = proc
    BY <2>1 DEF CountersMatchDecided
  <2>2. CASE proc' # proc
    <3>1. proc.pc # "stamp" /\ proc'.pc # "stamp" /\ proc'.counters = proc.counters
          /\ proc'.total = proc.total
      BY <1>4, <2>2 DEF QuietKind, Core
    <3>. QED
      BY <3>1 DEF CountersMatchDecided
  <2>. QED
    BY <2>1, <2>2
<1>5. CASE DecideKind
  <2>1. PICK live \in LiveStates :
          /\ proc'.tick = Decide(live, proc.counters, proc.seen \cup live.book, proc.phase)
          /\ proc'.total = Traded(proc.total, proc'.tick)
    BY <1>5 DEF DecideKind, Core, Line
  <2>2. proc.pc = "read" /\ proc'.pc = "stamp" /\ proc.counters \in Counters
    BY <1>5, FieldTypes DEF DecideKind, Stampable
  <2>3. proc.counters = proc.total /\ proc.counters.entries <= MaxEntries
    BY <2>2 DEF CountersMatchDecided
  <2>4. /\ proc'.tick.counters = Traded(proc.counters, proc'.tick)
        /\ proc'.tick.counters.entries <= MaxEntries
    BY <2>1, <2>2, <2>3, DecideFacts
  <2>. QED
    BY <2>1, <2>2, <2>3, <2>4 DEF CountersMatchDecided
<1>6. CASE TickKind /\ proc' # Down
  <2>1. proc.pc = "stamp" /\ proc'.pc # "stamp" /\ proc'.counters = proc.tick.counters
        /\ proc'.total = proc.total
    BY <1>6 DEF TickKind, Core
  <2>. QED
    BY <2>1 DEF CountersMatchDecided
<1>. QED
  BY <1>1, <1>2, <1>3, <1>4, <1>5, <1>6, Kinds DEF StopKind

\* CountersCorrect: CountersMatchDecided for any reads, windows, cap and
\* number of ticks.
THEOREM CountersCorrect == Spec => []CountersMatchDecided
BY InitTyped, InitCounters, Kinds, StepCounters, PTL DEF Spec

\* A tick of the phase "entries" ends before the cutoff.
LEMMA PhaseFacts ==
    ASSUME NEW b \in Sessions \ {NoSession}, NEW t \in Nat
    PROVE  /\ Phase(b, t) \in {"entries", "exits"} => t >= b.open + OpenDelay /\ t < b.close
           /\ Phase(b, t) = "entries" => t + CloseCutoff < b.close
<1>1. b.open \in Nat /\ b.close \in Nat
  OBVIOUS
<1>2. OpenDelay \in Nat /\ CloseCutoff \in Nat
  OBVIOUS
<1>. HIDE DEF ScheduleAssumption, InputAssumption
<1>. QED
  BY <1>1, <1>2 DEF Phase, FirstEligible, EntryCutoff

LEMMA InitWindow == Init => EntriesInWindow
BY DEF Init, EntriesInWindow

LEMMA StepWindow == Typed /\ EntriesInWindow /\ [Next]_vars => EntriesInWindow'
<1>. SUFFICES ASSUME Typed, EntriesInWindow, [Next]_vars PROVE EntriesInWindow'
  OBVIOUS
<1>1. bounds' = bounds
  BY Kinds
<1>2. CASE log' = log
  BY <1>1, <1>2 DEF EntriesInWindow
<1>3. CASE DecideKind
  <2>1. PICK live \in LiveStates, line \in Lines :
          /\ line = Line(proc, live)
          /\ log' = AppendLine(line, proc.keys)
    BY <1>3 DEF DecideKind
  <2>2. /\ proc.pc = "read" /\ bounds \in Sessions \ {NoSession} /\ proc.at \in Nat
        /\ proc.phase \in {"entries", "exits"} /\ proc.phase = Phase(bounds, proc.at)
        /\ proc.counters \in Counters
    BY <1>3, FieldTypes DEF DecideKind, Typed, TypeOK, GateInv, Running, Procs
  <2>3. /\ line.at = proc.at /\ line.live = live
        /\ line.decision = Decide(live, proc.counters, proc.seen \cup live.book, proc.phase)
    BY <2>1 DEF Line
  <2>4. /\ line.decision.exits = line.live.exits
        /\ proc.phase = "exits" => line.decision.entries = {}
    BY <2>2, <2>3, DecideFacts
  <2>5. /\ line.at >= bounds.open + OpenDelay /\ line.at < bounds.close
        /\ line.decision.entries # {} => line.at + CloseCutoff < bounds.close
    BY <2>2, <2>3, <2>4, PhaseFacts
  <2>6. CASE log' = Append(log, line)
    <3>1. log \in Seq(Lines)
      BY DEF Typed, TypeOK
    <3>2. \A i \in DOMAIN log' : log'[i] = line \/ (i \in DOMAIN log /\ log'[i] = log[i])
      BY <2>6, <3>1
    <3>. QED
      BY <1>1, <2>4, <2>5, <3>2 DEF EntriesInWindow
  <2>. QED
    BY <1>2, <2>1, <2>6 DEF AppendLine
<1>. QED
  BY <1>2, <1>3, Kinds DEF StartKind, LoadKind, QuietKind, StopKind, SkipKind, TickKind

\* WindowCorrect: EntriesInWindow for any calendar, delays and reads.
THEOREM WindowCorrect == Spec => []EntriesInWindow
BY InitTyped, InitWindow, Kinds, StepWindow, PTL DEF Spec

\* TicksGatedCorrect: TicksGated for any calendar and configurations.
THEOREM TicksGatedCorrect == Spec => TicksGated
<1>1. Typed /\ [Next]_vars =>
        [(proc.pc # "read" /\ proc'.pc = "read") =>
           /\ ~kill /\ bounds # NoSession
           /\ proc.cfg.valid /\ proc.cfg.enabled /\ proc.cfg.flag]_vars
  <2>. SUFFICES ASSUME Typed, [Next]_vars, proc.pc # "read", proc'.pc = "read"
                PROVE  /\ ~kill /\ bounds # NoSession
                       /\ proc.cfg.valid /\ proc.cfg.enabled /\ proc.cfg.flag
    OBVIOUS
  <2>1. QuietKind /\ proc.pc \in {"cycle", "asleep"}
    BY Kinds, DownType DEF StartKind, LoadKind, QuietKind, StopKind, SkipKind, DecideKind, TickKind
  <2>2. Running
    BY <2>1 DEF Running
  <2>3. Cycle
    <3>1. ~Wake /\ ~(UNCHANGED proc)
      BY FieldTypes DEF Wake, Procs
    <3>. QED
      BY <2>1, <3>1, DownType DEF Next, Work, Start, Running, Load, ReadFails, TickRaises, ShadowViolation,
         RunTick, StampTick, LastStamp, Clock, ToggleKill, Crash, vars
  <2>4. ~kill
    <3>1. CASE kill
      BY <2>3, <3>1, DownType DEF Cycle, KillSeen, StopsWith
    <3>. QED
      BY <3>1
  <2>. QED
    BY <2>2, <2>4 DEF Typed, GateInv
<1>. QED
  BY <1>1, InitTyped, Kinds, PTL DEF Spec, TicksGated

-----------------------------------------------------------------------------
(* Skipped ticks.                                                          *)

\* The last n elements of a sequence are all v.
Trailing(q, n, v) == Len(q) >= n /\ \A i \in (Len(q) - n + 1)..Len(q) : q[i] = v

LEMMA AppendTrailing ==
    ASSUME NEW q \in Seq(Nat), NEW n \in Nat, NEW v \in Nat, Trailing(q, n, v)
    PROVE  Trailing(Append(q, v), n + 1, v)
<1>. DEFINE a == Append(q, v)
            k == Len(q)
<1>1. /\ Len(a) = k + 1 /\ k \in Nat /\ a[k + 1] = v
      /\ \A i \in 1..k : a[i] = q[i]
  OBVIOUS
<1>2. k >= n /\ \A i \in (k - n + 1)..k : q[i] = v
  BY DEF Trailing
<1>. HIDE DEF a, k
<1>3. (k + 1) - (n + 1) + 1 = k - n + 1 /\ k + 1 >= n + 1
  BY <1>1, <1>2
<1>4. ASSUME NEW i \in (k - n + 1)..(k + 1) PROVE a[i] = v
  <2>1. CASE i = k + 1
    BY <1>1, <2>1
  <2>2. CASE i # k + 1
    <3>1. i \in (k - n + 1)..k /\ i \in 1..k
      BY <1>1, <1>2, <2>2
    <3>. QED
      BY <1>1, <1>2, <3>1
  <2>. QED
    BY <2>1, <2>2
<1>5. Trailing(a, n + 1, v)
  BY <1>1, <1>3, <1>4 DEF Trailing
<1>. QED
  BY <1>5 DEF a

LEMMA InitOutage == Init => OutageInv
BY DownType DEF Init, OutageInv, OutageIsSustained, NoManifest, Running

LEMMA StepOutage == Typed /\ OutageInv /\ [Next]_vars => OutageInv'
<1>. SUFFICES ASSUME Typed, OutageInv, [Next]_vars PROVE OutageInv'
  OBVIOUS
<1>a. /\ proc.skips \in Seq(Nat) /\ proc.index \in Nat
      /\ proc.fails \in 0..(MaxConsecutive - 1) /\ proc.fails \in Nat
      /\ Running => Trailing(proc.skips, proc.fails, proc.index)
  BY FieldTypes DEF OutageInv, Trailing
<1>1. ASSUME proc' # Down PROVE Running' => Trailing(proc'.skips, proc'.fails, proc'.index)
  <2>1. CASE StartKind
    <3>1. proc'.skips = <<>> /\ proc'.fails = 0 /\ proc'.index = 0
      BY <1>1, <2>1 DEF StartKind, Core
    <3>. QED
      BY <3>1 DEF Trailing
  <2>2. CASE LoadKind
    <3>1. UNCHANGED <<proc.skips, proc.fails, proc.index>> /\ Running
      BY <1>1, <2>2 DEF LoadKind, Core, Running
    <3>. QED
      BY <1>a, <3>1
  <2>3. CASE QuietKind
    <3>1. CASE proc' = proc
      BY <1>a, <3>1 DEF Running
    <3>2. CASE proc' # proc
      <4>1. UNCHANGED <<proc.skips, proc.fails, proc.index>> /\ Running
        BY <1>1, <2>3, <3>2 DEF QuietKind, Core, Running
      <4>. QED
        BY <1>a, <4>1
    <3>. QED
      BY <3>1, <3>2
  <2>4. CASE SkipKind
    <3>1. /\ proc'.skips = Append(proc.skips, proc.index) /\ proc'.fails = proc.fails + 1
          /\ proc'.index = proc.index /\ Running
      BY <1>1, <2>4 DEF SkipKind, Core, Running
    <3>. QED
      BY <1>a, <3>1, AppendTrailing
  <2>5. CASE DecideKind
    <3>1. UNCHANGED <<proc.skips, proc.fails, proc.index>> /\ Running
      BY <2>5 DEF DecideKind, Core, Running
    <3>. QED
      BY <1>a, <3>1
  <2>6. CASE TickKind
    <3>1. proc'.skips = proc.skips /\ proc'.fails = 0
      BY <1>1, <2>6 DEF TickKind, Core
    <3>2. Len(proc.skips) \in Nat
      BY <1>a
    <3>. QED
      BY <3>1, <3>2 DEF Trailing
  <2>. QED
    BY <1>1, <2>1, <2>2, <2>3, <2>4, <2>5, <2>6, Kinds DEF StopKind
<1>2. OutageIsSustained'
  <2>1. CASE manifest' = manifest
    BY <2>1 DEF OutageInv, OutageIsSustained
  <2>2. CASE manifest'.error = "outage" /\ manifest' # manifest
    <3>1. SkipKind /\ proc' = Down
      BY <2>2, Kinds DEF StartKind, LoadKind, QuietKind, StopKind, SkipKind, DecideKind, TickKind
    <3>2. /\ Running /\ manifest'.ticks = proc.index /\ proc.fails + 1 = MaxConsecutive
          /\ manifest'.skips = Append(proc.skips, proc.index)
      <4>1. proc'.pc \notin {"asleep", "last"}
        BY <3>1, DownType
      <4>. QED
        BY <2>2, <3>1, <4>1 DEF SkipKind, Stamped, Running
    <3>3. Trailing(manifest'.skips, MaxConsecutive, manifest'.ticks)
      BY <1>a, <3>2, AppendTrailing
    <3>. QED
      BY <3>3 DEF OutageIsSustained, Trailing
  <2>. QED
    BY <2>1, <2>2 DEF OutageIsSustained
<1>. QED
  BY <1>1, <1>2, DownNotRunning DEF OutageInv, Trailing

\* OutageCorrect: OutageIsSustained for any bound, retry budget and number of
\* restarts.
THEOREM OutageCorrect == Spec => []OutageIsSustained
<1>1. OutageInv => OutageIsSustained
  BY DEF OutageInv
<1>. QED
  BY <1>1, InitTyped, InitOutage, Kinds, StepOutage, PTL DEF Spec

-----------------------------------------------------------------------------
(* The replay audit.                                                       *)

\* What the first process has to say of the lines while it runs.
Authors(p) == \A i \in DOMAIN log : log[i].signal = p.signal /\ log[i].gate = p.gate

LEMMA InitAudit == Init => AuditInv
BY DownType DEF Init, AuditInv, NoManifest, Running

LEMMA StepReplays ==
    ASSUME Typed, [Next]_vars, \A i \in DOMAIN log : Replays(log[i])
    PROVE  \A i \in DOMAIN log' : Replays(log'[i])
<1>1. CASE log' = log
  BY <1>1
<1>2. CASE DecideKind
  <2>1. PICK live \in LiveStates, line \in Lines :
          line = Line(proc, live) /\ log' = AppendLine(line, proc.keys)
    BY <1>2 DEF DecideKind
  <2>2. Replays(line)
    <3>1. proc.counters \in Counters
      BY FieldTypes DEF Stampable
    <3>2. /\ line.live = live /\ line.before = proc.counters /\ line.phase = proc.phase
          /\ line.inFlight = proc.seen \cup live.book
          /\ line.decision = Decide(live, proc.counters, proc.seen \cup live.book, proc.phase)
      BY <2>1 DEF Line
    <3>. QED
      BY <3>1, <3>2, DecideFacts DEF Replays
  <2>3. CASE log' = Append(log, line)
    <3>1. log \in Seq(Lines)
      BY DEF Typed, TypeOK
    <3>2. \A i \in DOMAIN log' : log'[i] = line \/ (i \in DOMAIN log /\ log'[i] = log[i])
      BY <2>3, <3>1
    <3>. QED
      BY <2>2, <3>2
  <2>. QED
    BY <1>1, <2>1, <2>3 DEF AppendLine
<1>. QED
  BY <1>1, <1>2, Kinds DEF StartKind, LoadKind, QuietKind, StopKind, SkipKind, TickKind

LEMMA StepAudit == Typed /\ LogInv /\ AuditInv /\ [Next]_vars => AuditInv'
<1>. SUFFICES ASSUME Typed, LogInv, AuditInv, [Next]_vars PROVE AuditInv'
  OBVIOUS
<1>a. /\ starts \in Nat /\ log \in Seq(Lines) /\ Len(log) \in Nat /\ proc.index \in Nat
      /\ DOMAIN log = 1..Len(log)
  BY FieldTypes DEF Typed, TypeOK
<1>b. \A i \in DOMAIN log' : Replays(log'[i])
  BY StepReplays DEF AuditInv
<1>c. proc.pc \in {"cycle", "read", "stamp", "asleep", "last"} => proc.signal # None
  BY DEF Typed, GateInv
<1>1. CASE StartKind
  <2>1. log' = log /\ starts' = starts + 1
    BY <1>1 DEF StartKind
  <2>2. CASE starts # 0
    BY <1>a, <1>b, <2>1, <2>2 DEF AuditInv
  <2>3. CASE starts = 0
    <3>1. log = <<>> /\ starts' = 1
      BY <2>1, <2>3 DEF AuditInv
    <3>2. CASE proc' = Down
      BY <1>1, <1>b, <2>1, <3>1, <3>2, DownNotRunning DEF StartKind, AuditInv
    <3>3. CASE proc' # Down
      <4>1. /\ proc'.pc = "load" /\ proc'.signal = None /\ proc'.index = 0
            /\ manifest' = manifest /\ manifest.signal = None
        BY <1>1, <2>3, <3>3 DEF StartKind, Core, AuditInv
      <4>. QED
        BY <1>b, <2>1, <3>1, <4>1 DEF AuditInv, Running
    <3>. QED
      BY <3>2, <3>3
  <2>. QED
    BY <2>2, <2>3
<1>2. CASE starts # 1 /\ ~StartKind
  <2>1. starts' = starts
    BY <1>2, Kinds DEF LoadKind, QuietKind, StopKind, SkipKind, DecideKind, TickKind
  <2>2. CASE starts # 0
    BY <1>2, <1>b, <2>1, <2>2 DEF AuditInv
  <2>3. CASE starts = 0
    <3>1. ~Running /\ log = <<>> /\ manifest.signal = None
      BY <2>3 DEF AuditInv
    <3>2. QuietKind
      BY <1>2, <3>1, Kinds DEF Running, LoadKind, StopKind, SkipKind, DecideKind, TickKind
    <3>3. ~Running' /\ log' = <<>> /\ manifest'.signal = None
      BY <3>1, <3>2, DownNotRunning DEF QuietKind, Running
    <3>. QED
      BY <1>b, <2>1, <2>3, <3>3 DEF AuditInv
  <2>. QED
    BY <2>2, <2>3
<1>3. CASE starts = 1 /\ LoadKind
  <2>1. /\ starts' = 1 /\ log' = <<>> /\ log = <<>> /\ proc.signal = None /\ proc.index = 0
    BY <1>3 DEF LoadKind, AuditInv, Running, LogInv
  <2>2. CASE proc' = Down
    <3>1. manifest'.signal = None
      BY <1>3, <2>1, <2>2, DownNotRunning DEF LoadKind
    <3>. QED
      BY <1>b, <2>1, <2>2, <3>1, DownNotRunning DEF AuditInv
  <2>3. CASE proc' # Down
    <3>1. /\ proc'.pc = "cycle" /\ proc'.index = 0 /\ manifest'.status = "running"
      BY <1>3, <2>1, <2>3 DEF LoadKind, Core
    <3>. QED
      BY <1>b, <2>1, <3>1 DEF AuditInv, Running
  <2>. QED
    BY <2>2, <2>3
<1>4. CASE starts = 1 /\ QuietKind
  <2>1. starts' = 1 /\ log' = log /\ manifest' = manifest
    BY <1>4 DEF QuietKind
  <2>2. CASE proc' = proc
    BY <1>4, <2>1, <2>2 DEF AuditInv, Running
  <2>3. CASE proc' = Down /\ proc' # proc
    <3>1. Running
      <4>1. ASSUME ~Running PROVE FALSE
        <5>1. proc.pc = "down"
          BY <4>1 DEF Running
        <5>2. ~Start
          BY <1>4, <2>1 DEF Start
        <5>3. ~Work
          BY <5>1 DEF Work, Load, Cycle, Wake, ReadFails, TickRaises, ShadowViolation,
             RunTick, StampTick, LastStamp
        <5>4. ~(Clock \/ ToggleKill \/ UNCHANGED vars)
          BY <2>3 DEF Clock, ToggleKill, vars
        <5>5. Crash
          BY <5>2, <5>3, <5>4 DEF Next
        <5>. QED
          BY <4>1, <5>5 DEF Crash
      <4>. QED
        BY <4>1
    <3>2. manifest.signal = None \/ manifest.status = "running"
      BY <1>4, <3>1 DEF AuditInv
    <3>. QED
      BY <1>b, <2>1, <2>3, <3>2, DownNotRunning DEF AuditInv
  <2>4. CASE proc' # Down /\ proc' # proc
    <3>1. /\ proc.pc \in {"cycle", "read", "asleep"}
          /\ proc'.pc \in {"cycle", "read", "asleep", "last"}
          /\ proc'.index = proc.index /\ proc'.signal = proc.signal
          /\ proc'.gate = proc.gate \/ proc.gate = None
          /\ proc'.pc = "read" => proc'.gate # None \/ (proc.pc = "read" /\ proc'.gate = proc.gate)
      BY <1>4, <2>4 DEF QuietKind, Core
    <3>2. /\ Len(log) = proc.index /\ Authors(proc)
          /\ log # <<>> \/ proc.pc = "read" => proc.gate # None
          /\ manifest.signal = None \/ manifest.status = "running"
      BY <1>4, <3>1 DEF AuditInv, Running, Authors
    <3>3. \A i \in DOMAIN log : log[i].signal = proc'.signal /\ log[i].gate = proc'.gate
      <4>1. CASE log = <<>>
        BY <4>1
      <4>2. CASE log # <<>>
        BY <3>1, <3>2, <4>2 DEF Authors
      <4>. QED
        BY <4>1, <4>2
    <3>. QED
      BY <1>b, <2>1, <3>1, <3>2, <3>3 DEF AuditInv, Running
  <2>. QED
    BY <2>2, <2>3, <2>4
<1>5. CASE starts = 1 /\ (StopKind \/ SkipKind \/ TickKind)
  <2>1. PICK index \in {proc.index, proc.index + 1} :
          /\ starts' = 1 /\ log' = log /\ Stamped(index) /\ Running /\ proc.signal # None
          /\ proc.pc # "load"
          /\ Len(log) = index
          /\ \/ proc' = Down
             \/ /\ proc'.pc \in {"asleep", "last"} /\ proc'.gate = proc.gate /\ proc'.signal = proc.signal
                /\ proc'.index = index /\ manifest'.status = "running"
    <3>1. CASE StopKind \/ SkipKind
      <4>1. /\ proc.pc \in {"cycle", "read", "last"} /\ starts' = 1 /\ log' = log /\ Stamped(proc.index)
            /\ \/ proc' = Down
               \/ /\ proc'.pc \in {"asleep", "last"} /\ proc'.gate = proc.gate /\ proc'.signal = proc.signal
                  /\ proc'.index = proc.index /\ manifest'.status = "running"
        BY <1>5, <3>1 DEF StopKind, SkipKind, Core
      <4>2. Len(log) = proc.index /\ Running
        BY <1>5, <4>1 DEF AuditInv, Running
      <4>. QED
        BY <1>c, <4>1, <4>2
    <3>2. CASE TickKind
      <4>1. /\ proc.pc = "stamp" /\ starts' = 1 /\ log' = log /\ Stamped(proc.index + 1)
            /\ \/ proc' = Down
               \/ /\ proc'.pc \in {"asleep", "last"} /\ proc'.gate = proc.gate /\ proc'.signal = proc.signal
                  /\ proc'.index = proc.index + 1 /\ manifest'.status = "running"
        BY <1>5, <3>2 DEF TickKind, Core
      <4>2. Len(log) = proc.index + 1 /\ Running
        BY <1>5, <4>1 DEF AuditInv, Running
      <4>. QED
        BY <1>c, <4>1, <4>2
    <3>. QED
      BY <1>5, <3>1, <3>2
  <2>2. Authors(proc) /\ (log # <<>> => proc.gate # None)
    BY <1>5, <2>1 DEF AuditInv, Authors
  <2>3. proc.pc \in {"cycle", "read", "stamp", "asleep", "last"} /\ AsOf[proc.signal] < Today
    BY <2>1, FieldTypes DEF Running, Typed, GateInv, Procs
  <2>4. CASE proc' = Down
    BY <1>b, <2>1, <2>2, <2>3, <2>4, DownNotRunning DEF AuditInv, Stamped, Authors
  <2>5. CASE proc' # Down
    BY <1>b, <2>1, <2>2, <2>5 DEF AuditInv, Stamped, Authors, Running
  <2>. QED
    BY <2>4, <2>5
<1>6. CASE starts = 1 /\ DecideKind
  <2>1. PICK live \in LiveStates, line \in Lines :
          /\ line = Line(proc, live) /\ log' = AppendLine(line, proc.keys)
          /\ proc'.index = proc.index /\ proc'.signal = proc.signal
    BY <1>6 DEF DecideKind, Core
  <2>2. /\ proc.pc = "read" /\ proc'.pc = "stamp" /\ starts' = 1 /\ manifest' = manifest
        /\ proc'.gate = proc.gate
    BY <1>6 DEF DecideKind
  <2>3. /\ Len(log) = proc.index /\ Authors(proc) /\ proc.gate # None
        /\ manifest.signal = None \/ manifest.status = "running"
        /\ proc.keys = 0..(Len(log) - 1)
    BY <1>6, <2>2 DEF AuditInv, Running, Authors, LogInv
  <2>4. line.index = proc.index /\ line.signal = proc.signal /\ line.gate = proc.gate
    BY <2>1 DEF Line
  <2>5. log' = Append(log, line)
    <3>1. proc.index \notin proc.keys
      BY <1>a, <2>3
    <3>. QED
      BY <2>1, <2>4, <3>1 DEF AppendLine
  <2>6. /\ Len(log') = proc.index + 1
        /\ \A i \in DOMAIN log' : log'[i] = line \/ (i \in DOMAIN log /\ log'[i] = log[i])
    BY <1>a, <2>3, <2>5
  <2>7. \A i \in DOMAIN log' : log'[i].signal = proc'.signal /\ log'[i].gate = proc'.gate
    BY <2>1, <2>2, <2>3, <2>4, <2>6 DEF Authors
  <2>. QED
    BY <1>b, <2>1, <2>2, <2>3, <2>6, <2>7 DEF AuditInv, Running
<1>. QED
  BY <1>1, <1>2, <1>3, <1>4, <1>5, <1>6, Kinds

\* AuditCorrect: HonestSessionAudits for any calendar, reads, failures and
\* endings of the one process of a day.
THEOREM AuditCorrect == Spec => []HonestSessionAudits
<1>1. Typed /\ AuditInv => HonestSessionAudits
  <2>. SUFFICES ASSUME Typed, AuditInv, starts = 1, ~Running, manifest.signal # None,
                       manifest.status # "running"
                PROVE  Mismatches = {}
    BY DEF HonestSessionAudits
  <2>1. /\ AsOf[manifest.signal] < Today
        /\ Len(log) = manifest.ticks
        /\ log # <<>> => manifest.gate # None
        /\ \A i \in DOMAIN log : /\ log[i].signal = manifest.signal
                                 /\ log[i].gate = manifest.gate /\ Replays(log[i])
    BY DEF AuditInv
  <2>2. AsOf[manifest.signal] \in Nat
    BY FieldTypes DEF Manifests
  <2>3. \A i \in DOMAIN log : LineMismatches(log[i]) = {}
    BY <2>1 DEF LineMismatches, Replays
  <2>4. ~(AsOf[manifest.signal] >= Today)
    BY <2>1, <2>2
  <2>. QED
    BY <2>1, <2>3, <2>4 DEF Mismatches
<1>. QED
  BY <1>1, InitTyped, Kinds, InitLogInv, StepLogInv, InitAudit, StepAudit, PTL DEF Spec
=============================================================================
