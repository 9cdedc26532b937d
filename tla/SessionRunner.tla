---------------------------- MODULE SessionRunner ----------------------------
(***************************************************************************)
(* One Stage-2 session from the operator's files to the executor           *)
(* (intraday_session_runner.py, with the arming gate and the envelope      *)
(* tracker of intraday_live_executor.py), over several days, processes and *)
(* recorded authorizations.                                                *)
(*                                                                         *)
(* The operator edits three files at any time: the authorization, the      *)
(* section 9.4 file and the kill switch.  A process reads them one after   *)
(* the other and acts on what it read, so an edit may fall between any two *)
(* reads.  An authorization is identified with its content hash.  Orders   *)
(* are abstracted to who sends which kind through which port;              *)
(* LiveExecutor has the executor's own steps.                              *)
(***************************************************************************)
EXTENDS Integers, FiniteSets

CONSTANTS
    Auths,         \* authorization contents
    NoAuth,        \* no (readable, schema-valid) authorization file
    LiveGrade,     \* those whose evidence meets the K = 5 floor of real trading
    Window,        \* the days each is valid: date .. expiry
    MaxSessions,   \* max_live_sessions of each
    MaxDay,        \* bound: days
    SessionDays,   \* the days the exchange calendar has a session
    MayReinstall,  \* does the operator put an earlier authorization back?
    MaxEdits,      \* bound: operator edits
    MaxCrashes     \* bound: process deaths

Days == 1 .. MaxDay

ASSUME AuthsAssumption ==
    /\ IsFiniteSet(Auths) /\ NoAuth \notin Auths /\ LiveGrade \subseteq Auths
    /\ Window \in [Auths -> SUBSET Days] /\ MaxSessions \in [Auths -> Nat]
ASSUME RunBoundsAssumption ==
    /\ MaxDay \in Nat \ {0} /\ SessionDays \subseteq Days
    /\ MayReinstall \in BOOLEAN /\ MaxEdits \in Nat /\ MaxCrashes \in Nat

VARIABLES
    day,
    files,     \* what the operator recorded
    state,     \* stage2_canary_state.json
    pc,        \* where the process is
    run,       \* what the process has read and built
    sent,      \* orders handed to a broker port
    used,      \* history: the days counted under each authorization
    spent,     \* history: authorizations whose loss budget was breached
    past,      \* history: authorizations that were replaced
    bounds     \* edits and crashes left

vars == <<day, files, state, pc, run, sent, used, spent, past, bounds>>

Section94 == {"absent", "paper", "real"}

Files == [auth : Auths \cup {NoAuth}, s94 : Section94, kill : BOOLEAN]

State == [auth : Auths \cup {NoAuth}, sessions : SUBSET Days, tripped : BOOLEAN]

\* The envelope of an authorization under which nothing ever ran.
Fresh(a) == [auth |-> a, sessions |-> {}, tripped |-> FALSE]

\* How the caller of SessionRunner wires port_factory: not at all, by the
\* paper flag as main does, or to a real broker whatever the flag says.
Factories == {"none", "coupled", "real"}

Run == [config : BOOLEAN, env : BOOLEAN, factory : Factories,
        readPaper : BOOLEAN, s94 : BOOLEAN, paper : BOOLEAN,
        auth : Auths \cup {NoAuth}, port : {"none", "paper", "real"}]

NoRun == [config |-> FALSE, env |-> FALSE, factory |-> "none",
          readPaper |-> FALSE, s94 |-> FALSE, paper |-> FALSE,
          auth |-> NoAuth, port |-> "none"]

Order == [auth : Auths, day : Days, port : {"paper", "real"},
          kind : {"entry", "exit"}]

Phases == {"down", "wired", "checked", "shadow", "starting", "built", "live",
           "ticking", "closing"}

\* TypeOK: the files, the process and the histories are well formed.
TypeOK ==
    /\ day \in Days
    /\ files \in Files
    /\ state \in State
    /\ pc \in Phases
    /\ run \in Run
    /\ sent \in SUBSET Order
    /\ used \in [Auths -> SUBSET Days]
    /\ spent \in SUBSET Auths
    /\ past \in SUBSET Auths
    /\ bounds \in [edits : 0 .. MaxEdits, crashes : 0 .. MaxCrashes]

Init ==
    /\ day = 1
    /\ files \in [auth : Auths \cup {NoAuth}, s94 : Section94, kill : {FALSE}]
    /\ state = Fresh(NoAuth)
    /\ pc = "down"
    /\ run = NoRun
    /\ sent = {}
    /\ used = [a \in Auths |-> {}]
    /\ spent = {} /\ past = {}
    /\ bounds = [edits |-> MaxEdits, crashes |-> MaxCrashes]

history == <<used, spent>>

-----------------------------------------------------------------------------
(* The operator.                                                           *)

Edit(f) ==
    /\ bounds.edits > 0
    /\ bounds' = [bounds EXCEPT !.edits = @ - 1]
    /\ files' = f
    /\ UNCHANGED <<day, state, pc, run, sent, history>>

RecordAuthorization ==
    \E a \in Auths \ {files.auth} :
        /\ a \in past => MayReinstall
        /\ Edit([files EXCEPT !.auth = a])
        /\ past' = past \cup ({files.auth} \ {NoAuth})

RecordSection94 ==
    /\ \E s \in Section94 \ {files.s94} : Edit([files EXCEPT !.s94 = s])
    /\ UNCHANGED past

TouchKill ==
    /\ Edit([files EXCEPT !.kill = ~@])
    /\ UNCHANGED past

-----------------------------------------------------------------------------
(* From the command line to the verdict.                                   *)

\* main: the configuration and the environment are read, and the section 9.4
\* file for the first time, to choose the account that sizing reads.
Launch ==
    /\ pc = "down"
    /\ \E c, e \in BOOLEAN, f \in Factories :
         run' = [NoRun EXCEPT !.config = c, !.env = e, !.factory = f,
                              !.readPaper = files.s94 = "paper"]
    /\ pc' = "wired"
    /\ UNCHANGED <<day, files, state, sent, history, past, bounds>>

\* run_session: check_section_9_4_authorization gives (authorized, is_paper).
CheckSection94 ==
    /\ pc = "wired"
    /\ run' = [run EXCEPT !.s94 = files.s94 # "absent",
                          !.paper = files.s94 = "paper"]
    /\ pc' = "checked"
    /\ UNCHANGED <<day, files, state, sent, history, past, bounds>>

\* Expiry is not looked at.
AuthorizationOk_Expired(a, paper) == a # NoAuth /\ (paper \/ a \in LiveGrade)

\* Gate 2, Stage2Authorization.from_payload: in its window, and with the
\* evidence its kind of session needs.
AuthorizationOk(a, paper) ==
    /\ a # NoAuth
    /\ day \in Window[a]
    /\ paper \/ a \in LiveGrade

\* The recorded state is never recognised as this authorization's.
EnvelopeOf_Forgets(a) == Fresh(a)

\* read_canary_envelope: a state recorded under another authorization counts
\* as a fresh envelope.
EnvelopeOf(a) == IF state.auth = a THEN state ELSE Fresh(a)

\* The trip is not part of the gate.
EnvelopeOk_CeilingOnly(a) ==
    Cardinality(EnvelopeOf(a).sessions) < MaxSessions[a]

\* Gate 5: not tripped, and fewer sessions used than the ceiling.
EnvelopeOk(a) ==
    /\ ~EnvelopeOf(a).tripped
    /\ Cardinality(EnvelopeOf(a).sessions) < MaxSessions[a]

\* resolve_stage2_arming: all five gates.  run.config stands for gate 1 and for
\* a pinned allowlist that covers the authorization's.
Armed(a) ==
    /\ run.config
    /\ AuthorizationOk(a, run.paper)
    /\ run.env
    /\ ~files.kill
    /\ EnvelopeOk(a)

\* Armed, authorized by section 9.4 and with a port to build: a live session.
\* Anything missing: the shadow scheduler.
Arm ==
    /\ pc = "checked"
    /\ IF Armed(files.auth) /\ run.s94 /\ run.factory # "none"
         THEN pc' = "starting" /\ run' = [run EXCEPT !.auth = files.auth]
         ELSE pc' = "shadow" /\ UNCHANGED run
    /\ UNCHANGED <<day, files, state, sent, history, past, bounds>>

ShadowEnds ==
    /\ pc = "shadow"
    /\ pc' = "down" /\ run' = NoRun
    /\ UNCHANGED <<day, files, state, sent, history, past, bounds>>

-----------------------------------------------------------------------------
(* The live session: _run_live.                                            *)

BuiltPort == IF run.factory = "coupled" /\ run.paper THEN "paper" ELSE "real"

\* The constructed port is not looked at.
PortRefused_Never == FALSE

PortRefused == run.paper /\ BuiltPort # "paper"

\* CanaryEnvelopeTracker: a state file of another authorization is archived
\* and replaced by a fresh envelope at once.
Adopted == IF state.auth \in {run.auth, NoAuth} THEN state ELSE Fresh(run.auth)

\* The executor is built before the port is.
WithPort_Dropped == run

WithPort == [run EXCEPT !.port = BuiltPort]

\* port_factory, the paper check (a RuntimeError ends the process) and the
\* construction of the executor with its tracker.
BuildExecutor ==
    /\ pc = "starting"
    /\ IF PortRefused
         THEN pc' = "down" /\ run' = NoRun /\ UNCHANGED state
         ELSE /\ pc' = "built" /\ run' = WithPort
              /\ state' = Adopted
    /\ UNCHANGED <<day, files, sent, history, past, bounds>>

\* begin_live_session: idempotent per date, and the ceiling as a backstop.
SlotLeft(s) ==
    day \in s.sessions \/ Cardinality(s.sessions) < MaxSessions[run.auth]

\* begin_session, then the calendar is asked: on a day without a session the
\* process returns at once, the slot stays used.
BeginSession ==
    /\ pc = "built"
    /\ LET s == EnvelopeOf(run.auth)
       IN  IF SlotLeft(s)
             THEN /\ state' = [s EXCEPT !.sessions = @ \cup {day}]
                  /\ used' = [used EXCEPT ![run.auth] = @ \cup {day}]
                  /\ IF day \in SessionDays
                       THEN pc' = "live" /\ UNCHANGED run
                       ELSE pc' = "down" /\ run' = NoRun
             ELSE pc' = "down" /\ run' = NoRun /\ UNCHANGED <<state, used>>
    /\ UNCHANGED <<day, files, sent, spent, past, bounds>>

\* The kill switch is looked at when the session starts, not in the loop.
StopWanted_Unpolled == FALSE

StopWanted == files.kill

\* The top of the loop: kill switch, then the window.
LoopStops ==
    /\ pc = "live"
    /\ pc' = "closing"     \* the kill switch is there, or the window closed
    /\ UNCHANGED <<day, files, state, run, sent, history, past, bounds>>

LoopTicks ==
    /\ pc = "live" /\ ~StopWanted
    /\ pc' = "ticking"
    /\ UNCHANGED <<day, files, state, run, sent, history, past, bounds>>

\* A provider (frozen signal, session start, live state, pipeline tick) raises:
\* nothing catches it and close_session is not reached.
TickInputFails ==
    /\ pc = "ticking"
    /\ pc' = "down" /\ run' = NoRun
    /\ UNCHANGED <<day, files, state, sent, history, past, bounds>>

Sends(kinds) ==
    sent' = sent \cup [auth : {run.auth}, day : {day}, port : {run.port},
                       kind : kinds]

\* process_tick: exits go first, the budget is evaluated, entries are sent
\* unless the envelope is tripped.
Tick ==
    /\ pc = "ticking"
    /\ \E trip \in {state.tripped, TRUE},
          kinds \in SUBSET {"entry", "exit"} :
         /\ trip => "entry" \notin kinds
         /\ state' = [state EXCEPT !.tripped = trip]
         /\ spent' = IF trip THEN spent \cup {run.auth} ELSE spent
         /\ Sends(kinds)
    /\ pc' = "live"
    /\ UNCHANGED <<day, files, run, used, past, bounds>>

CloseSession ==
    /\ pc = "closing"
    /\ pc' = "down" /\ run' = NoRun
    /\ UNCHANGED <<day, files, state, sent, history, past, bounds>>

-----------------------------------------------------------------------------

Crash ==
    /\ pc # "down" /\ bounds.crashes > 0
    /\ bounds' = [bounds EXCEPT !.crashes = @ - 1]
    /\ pc' = "down" /\ run' = NoRun
    /\ UNCHANGED <<day, files, state, sent, history, past>>

NextDay ==
    /\ pc = "down" /\ day < MaxDay
    /\ day' = day + 1
    /\ UNCHANGED <<files, state, pc, run, sent, history, past, bounds>>

ProcessStep ==
    \/ CheckSection94 \/ Arm \/ ShadowEnds \/ BuildExecutor \/ BeginSession
    \/ LoopStops \/ LoopTicks \/ TickInputFails \/ Tick \/ CloseSession

Next ==
    \/ RecordAuthorization \/ RecordSection94 \/ TouchKill
    \/ Launch \/ ProcessStep
    \/ Crash \/ NextDay

Spec == Init /\ [][Next]_vars

\* A started process keeps stepping; nobody has to start one, and the operator
\* need not touch a file.
FairSpec == Spec /\ WF_vars(ProcessStep)

-----------------------------------------------------------------------------
(* What the runner promises.                                               *)

\* PaperFloorNeverReal: evidence that only meets the relaxed paper floor never
\* sends an order to a real broker, however the port is wired and whenever
\* the section 9.4 file changes (run_session, _run_live).
PaperFloorNeverReal == \A o \in sent : o.port = "real" => o.auth \in LiveGrade

\* OrdersAccountedFor: every order was sent on an exchange day inside the
\* window of its authorization that the authorization was charged for.
OrdersAccountedFor ==
    \A o \in sent : o.day \in Window[o.auth] \cap SessionDays \cap used[o.auth]

Entries(orders, a) == {o \in orders : o.auth = a /\ o.kind = "entry"}

\* A breached authorization is charged for nothing and sends no entry.
SpentIsOver ==
    \A a \in spent : used'[a] = used[a] /\ Entries(sent', a) = Entries(sent, a)

\* TripIsFinal: once its loss budget is breached an authorization is charged
\* for no further day and sends no further entry; "only a NEW recorded
\* authorization clears it" (CanaryEnvelopeTracker.evaluate_budget).
TripIsFinal == [][SpentIsOver]_vars

Env(a) == INSTANCE Envelope WITH
            Ceiling <- MaxSessions[a], sessions <- used[a],
            tripped <- a \in spent

\* EnvelopePerAuthorization: the sessions and the trip of every authorization
\* behave as its abstract envelope, across processes, crashes and the
\* authorizations recorded in between.
EnvelopePerAuthorization ==
    /\ \A a \in Auths : Env(a)!Init
    /\ [][\A a \in Auths : [Env(a)!Next]_<<used[a], a \in spent>>]_vars

\* KillHalts: a kill switch that stays in place ends the process, in whatever
\* phase it finds it (the top of the loop, gate 4).
KillHalts == (files.kill /\ pc # "down") ~> (pc = "down" \/ ~files.kill)
=============================================================================
