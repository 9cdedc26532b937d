------------------------- MODULE SessionRunnerProofs -------------------------
(***************************************************************************)
(* The runner's promises for every set of authorizations, every calendar   *)
(* and any number of edits and crashes.  The first invariant follows one   *)
(* process from the gate to its orders; the second, for an operator who    *)
(* never puts a replaced authorization back, ties the one state file to    *)
(* the history of every authorization.                                     *)
(***************************************************************************)
EXTENDS SessionRunner, TLAPS

USE AuthsAssumption, RunBoundsAssumption DEF AuthsAssumption,
    RunBoundsAssumption

Admitted == {"starting", "built", "live", "ticking", "closing"}

\* What an admitted process knows of its authorization, and its port.
RunInv ==
    /\ pc \in Admitted => /\ run.auth \in Auths /\ day \in Window[run.auth]
                          /\ run.paper \/ run.auth \in LiveGrade
    /\ pc \in Admitted \ {"starting"} =>
         /\ run.port \in {"paper", "real"}
         /\ run.port = "real" => ~run.paper
    /\ pc \in {"live", "ticking"} =>
         day \in SessionDays /\ day \in used[run.auth]

Inv == TypeOK /\ RunInv /\ PaperFloorNeverReal /\ OrdersAccountedFor

LEMMA InvInit == Init => Inv
<1> SUFFICES ASSUME Init PROVE Inv
  OBVIOUS
<1>1. TypeOK
  <2>1. day \in Days /\ pc \in Phases
    BY DEF Init, Days, Phases
  <2>2. files \in Files /\ state \in State
    BY DEF Init, Files, State, Fresh
  <2>3. run \in Run
    BY DEF Init, Run, NoRun, Factories
  <2>4. bounds \in [edits : 0 .. MaxEdits, crashes : 0 .. MaxCrashes]
    BY DEF Init
  <2>. QED
    BY <2>1, <2>2, <2>3, <2>4 DEF Init, TypeOK
<1>2. RunInv /\ PaperFloorNeverReal /\ OrdersAccountedFor
  BY DEF Init, RunInv, Admitted, PaperFloorNeverReal, OrdersAccountedFor
<1>. QED
  BY <1>1, <1>2 DEF Inv

LEMMA OperatorTypes == TypeOK /\ (RecordAuthorization \/ RecordSection94
                                  \/ TouchKill) => TypeOK'
<1> SUFFICES ASSUME TypeOK,
                    RecordAuthorization \/ RecordSection94 \/ TouchKill
             PROVE  TypeOK'
  OBVIOUS
<1>1. /\ UNCHANGED <<day, state, pc, run, sent, used, spent>>
      /\ bounds' \in [edits : 0 .. MaxEdits, crashes : 0 .. MaxCrashes]
  BY DEF TypeOK, RecordAuthorization, RecordSection94, TouchKill, Edit, history
<1>2. files' \in Files
  BY DEF TypeOK, RecordAuthorization, RecordSection94, TouchKill, Edit, Files
<1>3. past' \in SUBSET Auths
  BY DEF TypeOK, RecordAuthorization, RecordSection94, TouchKill, Edit, Files
<1>. QED
  BY <1>1, <1>2, <1>3 DEF TypeOK

LEMMA ProcessTypes == TypeOK /\ RunInv /\ (Launch \/ ProcessStep \/ Crash \/ NextDay)
                        => TypeOK'
<1> SUFFICES ASSUME TypeOK, RunInv, Launch \/ ProcessStep \/ Crash \/ NextDay
             PROVE  TypeOK'
  OBVIOUS
<1> USE DEF history
<1>0. NoRun \in Run
  BY DEF Run, NoRun, Factories
<1>1. CASE Launch
  <2>1. run' \in Run
    BY <1>1 DEF Launch, NoRun, Run
  <2>. QED
    BY <1>1, <2>1 DEF Launch, TypeOK, Phases
<1>2. CASE CheckSection94
  <2>1. run' \in Run
    BY <1>2 DEF TypeOK, CheckSection94, Run
  <2>. QED
    BY <1>2, <2>1 DEF CheckSection94, TypeOK, Phases
<1>3. CASE Arm
  <2>1. run' \in Run
    BY <1>3 DEF TypeOK, Arm, Run, Files
  <2>. QED
    BY <1>3, <2>1 DEF Arm, TypeOK, Phases
<1>4. CASE ShadowEnds
  BY <1>0, <1>4 DEF ShadowEnds, TypeOK, Phases
<1>5. CASE BuildExecutor
  <2>0. WithPort \in Run
    BY DEF TypeOK, WithPort, BuiltPort, Run
  <2>1. run' \in Run
    BY <1>0, <1>5, <2>0 DEF BuildExecutor
  <2>2. Adopted \in State
    BY <1>5 DEF TypeOK, BuildExecutor, RunInv, Admitted, Adopted, Fresh, State
  <2>3. state' \in State
    BY <1>5, <2>2 DEF TypeOK, BuildExecutor
  <2>. QED
    BY <1>5, <2>1, <2>3 DEF BuildExecutor, TypeOK, Phases
<1>6. CASE BeginSession
  <2>1. run.auth \in Auths
    BY <1>6 DEF BeginSession, RunInv, Admitted
  <2>2. EnvelopeOf(run.auth) \in State
    BY <2>1 DEF TypeOK, EnvelopeOf, Fresh, State
  <2>3. state' \in State
    BY <1>6, <2>2 DEF TypeOK, BeginSession, State
  <2>4. used' \in [Auths -> SUBSET Days] /\ run' \in Run
    BY <1>0, <1>6 DEF TypeOK, BeginSession
  <2>5. pc' \in Phases
    BY <1>6 DEF BeginSession, Phases
  <2>. QED
    BY <1>6, <2>3, <2>4, <2>5 DEF BeginSession, TypeOK
<1>7. CASE LoopStops \/ LoopTicks
  BY <1>7 DEF LoopStops, LoopTicks, TypeOK, Phases
<1>8. CASE TickInputFails \/ CloseSession
  BY <1>0, <1>8 DEF TickInputFails, CloseSession, TypeOK, Phases
<1>9. CASE Tick
  <2>1. run.auth \in Auths /\ run.port \in {"paper", "real"}
    BY <1>9 DEF Tick, RunInv, Admitted
  <2>2. \A kinds \in SUBSET {"entry", "exit"} :
          [auth : {run.auth}, day : {day}, port : {run.port}, kind : kinds]
             \subseteq Order
    BY <2>1 DEF TypeOK, Order
  <2>3. sent' \in SUBSET Order
    BY <1>9, <2>2 DEF TypeOK, Tick, Sends
  <2>4. state' \in State /\ spent' \in SUBSET Auths
    BY <1>9, <2>1 DEF TypeOK, Tick, State
  <2>. QED
    BY <1>9, <2>3, <2>4 DEF Tick, TypeOK, Phases
<1>10. CASE Crash
  <2>1. bounds' \in [edits : 0 .. MaxEdits, crashes : 0 .. MaxCrashes]
    BY <1>10 DEF TypeOK, Crash
  <2>. QED
    BY <1>0, <1>10, <2>1 DEF Crash, TypeOK, Phases
<1>11. CASE NextDay
  BY <1>11 DEF NextDay, TypeOK, Days
<1>. QED
  BY <1>1, <1>2, <1>3, <1>4, <1>5, <1>6, <1>7, <1>8, <1>9, <1>10, <1>11
     DEF ProcessStep

LEMMA RunStep == Inv /\ Next => RunInv'
<1> SUFFICES ASSUME Inv, Next PROVE RunInv'
  OBVIOUS
<1>1. TypeOK /\ RunInv
  BY DEF Inv
<1> USE DEF history
<1>2. CASE RecordAuthorization \/ RecordSection94 \/ TouchKill
  <2>1. UNCHANGED <<day, pc, run, used>>
    BY <1>2 DEF RecordAuthorization, RecordSection94, TouchKill, Edit
  <2>. QED
    BY <1>1, <2>1 DEF RunInv
<1>3. CASE Arm
  <2>1. CASE pc' = "shadow"
    BY <2>1 DEF RunInv, Admitted
  <2>2. CASE pc' # "shadow"
    <3>1. /\ Armed(files.auth) /\ pc' = "starting" /\ UNCHANGED day
          /\ run' = [run EXCEPT !.auth = files.auth]
      BY <1>3, <2>2 DEF Arm
    <3>2. run'.auth = files.auth /\ run'.paper = run.paper
      BY <1>1, <3>1 DEF TypeOK, Run
    <3>3. files.auth \in Auths
      BY <1>1, <3>1 DEF TypeOK, Files, Armed, AuthorizationOk
    <3>. QED
      BY <3>1, <3>2, <3>3 DEF RunInv, Admitted, Armed, AuthorizationOk
  <2>. QED
    BY <2>1, <2>2
<1>4. CASE BuildExecutor
  <2>1. CASE PortRefused
    BY <1>4, <2>1 DEF BuildExecutor, RunInv, Admitted
  <2>2. CASE ~PortRefused
    <3>1. /\ pc = "starting" /\ pc' = "built" /\ run' = WithPort
          /\ UNCHANGED day
      BY <1>4, <2>2 DEF BuildExecutor
    <3>2. /\ run'.auth = run.auth /\ run'.paper = run.paper
          /\ run'.port = BuiltPort
      BY <1>1, <3>1 DEF TypeOK, Run, WithPort
    <3>3. BuiltPort \in {"paper", "real"}
      BY DEF BuiltPort
    <3>4. BuiltPort = "real" => ~run.paper
      BY <2>2 DEF PortRefused
    <3>. QED
      BY <1>1, <3>1, <3>2, <3>3, <3>4 DEF RunInv, Admitted
  <2>. QED
    BY <2>1, <2>2
<1>5. CASE BeginSession
  <2>1. CASE pc' = "live"
    <3>1. /\ pc = "built" /\ day \in SessionDays /\ UNCHANGED <<day, run>>
          /\ used' = [used EXCEPT ![run.auth] = @ \cup {day}]
      BY <1>5, <2>1 DEF BeginSession
    <3>2. day \in used'[run.auth]
      BY <1>1, <3>1 DEF TypeOK, RunInv, Admitted
    <3>. QED
      BY <1>1, <2>1, <3>1, <3>2 DEF RunInv, Admitted
  <2>2. CASE pc' # "live"
    BY <1>5, <2>2 DEF BeginSession, RunInv, Admitted
  <2>. QED
    BY <2>1, <2>2
<1>6. CASE LoopStops \/ LoopTicks
  BY <1>1, <1>6 DEF LoopStops, LoopTicks, RunInv, Admitted
<1>7. CASE Tick
  BY <1>1, <1>7 DEF Tick, RunInv, Admitted
<1>8. CASE \/ Launch \/ CheckSection94 \/ ShadowEnds \/ TickInputFails
           \/ CloseSession \/ Crash \/ NextDay
  <2>1. pc' \notin Admitted
    BY <1>8 DEF Launch, CheckSection94, ShadowEnds, TickInputFails,
       CloseSession, Crash, NextDay, Admitted
  <2>. QED
    BY <2>1 DEF RunInv, Admitted
<1>. QED
  BY <1>2, <1>3, <1>4, <1>5, <1>6, <1>7, <1>8 DEF Next, ProcessStep

\* The orders: only a tick sends, and days are only ever added to used.
LEMMA OrdersStep ==
    Inv /\ Next => PaperFloorNeverReal' /\ OrdersAccountedFor'
<1> SUFFICES ASSUME Inv, Next
             PROVE  PaperFloorNeverReal' /\ OrdersAccountedFor'
  OBVIOUS
<1>1. /\ TypeOK /\ RunInv /\ PaperFloorNeverReal /\ OrdersAccountedFor
      /\ sent \subseteq Order
  BY DEF Inv, TypeOK
<1> USE DEF history
<1>2. CASE Tick
  <2>1. PICK kinds \in SUBSET {"entry", "exit"} :
          /\ sent' = sent \cup [auth : {run.auth}, day : {day},
                                port : {run.port}, kind : kinds]
          /\ UNCHANGED <<used, day>> /\ pc = "ticking"
    BY <1>2 DEF Tick, Sends
  <2>2. \A o \in sent' \ sent :
           o.auth = run.auth /\ o.day = day /\ o.port = run.port
    BY <2>1
  <2>. QED
    BY <1>1, <2>1, <2>2
       DEF RunInv, Admitted, PaperFloorNeverReal, OrdersAccountedFor
<1>3. CASE BeginSession
  <2>1. sent' = sent /\ \A a \in Auths : used[a] \subseteq used'[a]
    BY <1>1, <1>3 DEF BeginSession, TypeOK
  <2>2. \A o \in sent : o.auth \in Auths
    BY <1>1 DEF Order
  <2>. QED
    BY <1>1, <2>1, <2>2 DEF PaperFloorNeverReal, OrdersAccountedFor
<1>4. CASE ~Tick /\ ~BeginSession
  <2>1. UNCHANGED <<sent, used>>
    BY <1>4 DEF Next, ProcessStep, RecordAuthorization, RecordSection94,
       TouchKill, Edit, Launch, CheckSection94, Arm, ShadowEnds,
       BuildExecutor, LoopStops, LoopTicks, TickInputFails, CloseSession,
       Crash, NextDay
  <2>. QED
    BY <1>1, <2>1 DEF PaperFloorNeverReal, OrdersAccountedFor
<1>. QED
  BY <1>2, <1>3, <1>4

LEMMA InvCorrect == Spec => []Inv
<1>1. Inv /\ [Next]_vars => Inv'
  <2> SUFFICES ASSUME Inv, [Next]_vars PROVE Inv'
    OBVIOUS
  <2>1. CASE Next
    BY <2>1, OperatorTypes, ProcessTypes, RunStep, OrdersStep DEF Inv, Next
  <2>2. CASE UNCHANGED vars
    BY <2>2 DEF vars, Inv, TypeOK, RunInv, PaperFloorNeverReal,
       OrdersAccountedFor
  <2>. QED
    BY <2>1, <2>2
<1>. QED
  BY InvInit, <1>1, PTL DEF Spec

\* RunnerTypeCorrect: the types hold in every reachable state.
THEOREM RunnerTypeCorrect == Spec => []TypeOK
<1>1. Inv => TypeOK
  BY DEF Inv
<1>. QED
  BY <1>1, InvCorrect, PTL

\* PaperFloorCorrect: for every wiring of the port and every edit of the
\* section 9.4 file between its two reads, an authorization without the
\* evidence for real trading never sends an order to a real broker.
THEOREM PaperFloorCorrect == Spec => []PaperFloorNeverReal
<1>1. Inv => PaperFloorNeverReal
  BY DEF Inv
<1>. QED
  BY <1>1, InvCorrect, PTL

\* OrdersCorrect: no order is sent outside the window of its authorization,
\* on a day without a session, or on a day that was not counted.
THEOREM OrdersCorrect == Spec => []OrdersAccountedFor
<1>1. Inv => OrdersAccountedFor
  BY DEF Inv
<1>. QED
  BY <1>1, InvCorrect, PTL

-----------------------------------------------------------------------------
(* The envelope across authorizations, when none is put back.              *)

Touched(a) == used[a] # {} \/ a \in spent

\* The state file holds the history of the authorization it names, and an
\* authorization with a history is either named there or already replaced.
LedgerInv ==
    /\ files.auth \notin past
    /\ state.auth \in past \cup {files.auth, NoAuth}
    /\ \A a \in Auths : state.auth = a =>
         state.sessions = used[a] /\ (state.tripped <=> a \in spent)
    /\ \A a \in Auths : Touched(a) => state.auth = a \/ a \in past

\* A process never acts for an authorization whose history was archived, and
\* is not admitted for one whose budget is breached.
OwnerInv ==
    /\ pc \in Admitted =>
         /\ run.auth \in past \cup {files.auth}
         /\ Touched(run.auth) => state.auth = run.auth
         /\ state.auth \in past \cup {run.auth, NoAuth}
    /\ pc \in {"starting", "built"} => run.auth \notin spent
    /\ pc = "built" => state.auth \in {run.auth, NoAuth}
    /\ pc \in {"live", "ticking"} => state.auth = run.auth

HistoryInv == LedgerInv /\ OwnerInv

LEMMA HistoryInit == Init => HistoryInv
  BY DEF Init, HistoryInv, LedgerInv, OwnerInv, Touched, Fresh, Admitted

LEMMA HistoryEdits ==
    ASSUME ~MayReinstall, Inv, HistoryInv,
           RecordAuthorization \/ RecordSection94 \/ TouchKill
    PROVE  HistoryInv'
<1>1. UNCHANGED <<day, state, pc, run, used, spent>>
  BY DEF RecordAuthorization, RecordSection94, TouchKill, Edit, history
<1>2. past \subseteq past' /\ files.auth \in past' \cup {files'.auth, NoAuth}
  BY DEF Inv, TypeOK, Files, RecordAuthorization, RecordSection94, TouchKill,
     Edit
<1>3. files'.auth \notin past'
  BY DEF Inv, TypeOK, Files, RecordAuthorization, RecordSection94, TouchKill,
     Edit, HistoryInv, LedgerInv
<1>4. LedgerInv'
  BY <1>1, <1>2, <1>3 DEF HistoryInv, LedgerInv, Touched
<1>5. OwnerInv'
  BY <1>1, <1>2 DEF HistoryInv, OwnerInv, Touched, Inv, RunInv
<1>. QED
  BY <1>4, <1>5 DEF HistoryInv

LEMMA HistoryArm ==
    ASSUME Inv, HistoryInv, Arm
    PROVE  HistoryInv'
<1>1. UNCHANGED <<files, state, used, spent, past>>
  BY DEF Arm, history
<1>2. LedgerInv'
  BY <1>1 DEF HistoryInv, LedgerInv, Touched
<1>3. CASE pc' = "shadow"
  BY <1>2, <1>3 DEF HistoryInv, OwnerInv, Admitted
<1>4. CASE pc' # "shadow"
  <2>1. pc' = "starting" /\ run'.auth = files.auth /\ Armed(files.auth)
    BY <1>4 DEF Arm, Inv, TypeOK, Run
  <2>2. files.auth \in Auths /\ ~EnvelopeOf(files.auth).tripped
    BY <2>1 DEF Armed, AuthorizationOk, EnvelopeOk, Inv, TypeOK, Files
  <2>3. files.auth \notin spent
    BY <2>2 DEF EnvelopeOf, HistoryInv, LedgerInv, Touched
  <2>. QED
    BY <1>1, <1>2, <2>1, <2>2, <2>3
       DEF HistoryInv, LedgerInv, OwnerInv, Touched
<1>. QED
  BY <1>2, <1>3, <1>4 DEF HistoryInv

LEMMA HistoryBuild ==
    ASSUME Inv, HistoryInv, BuildExecutor
    PROVE  HistoryInv'
<1>1. UNCHANGED <<files, used, spent, past>> /\ pc = "starting"
  BY DEF BuildExecutor, history
<1>2. CASE PortRefused
  <2>1. pc' = "down" /\ UNCHANGED state
    BY <1>2 DEF BuildExecutor
  <2>. QED
    BY <1>1, <2>1 DEF HistoryInv, LedgerInv, OwnerInv, Touched, Admitted
<1>3. CASE ~PortRefused
  <2>1. pc' = "built" /\ run' = WithPort /\ state' = Adopted
    BY <1>3 DEF BuildExecutor
  <2>2. run'.auth = run.auth /\ run.auth \in Auths
    BY <1>1, <2>1 DEF WithPort, Inv, TypeOK, Run, RunInv, Admitted
  <2>3. CASE state.auth \in {run.auth, NoAuth}
    <3>1. state' = state
      BY <2>1, <2>3 DEF Adopted
    <3>. QED
      BY <1>1, <2>1, <2>2, <2>3, <3>1
         DEF HistoryInv, LedgerInv, OwnerInv, Touched, Admitted
  <2>4. CASE state.auth \notin {run.auth, NoAuth}
    <3>1. /\ state'.auth = run.auth /\ state'.sessions = {}
          /\ state'.tripped = FALSE
      BY <2>1, <2>4 DEF Adopted, Fresh
    <3>2. ~Touched(run.auth) /\ state.auth \in past
      BY <1>1, <2>4 DEF HistoryInv, OwnerInv, Admitted
    <3>. QED
      BY <1>1, <2>1, <2>2, <3>1, <3>2
         DEF HistoryInv, LedgerInv, OwnerInv, Touched, Admitted
  <2>. QED
    BY <2>3, <2>4
<1>. QED
  BY <1>2, <1>3

LEMMA HistoryBegin ==
    ASSUME Inv, HistoryInv, BeginSession
    PROVE  HistoryInv'
<1>1. /\ UNCHANGED <<files, spent, past>> /\ pc = "built"
      /\ run.auth \in Auths /\ run.auth \notin spent
  BY DEF BeginSession, Inv, RunInv, Admitted, HistoryInv, OwnerInv
<1>2. CASE UNCHANGED <<state, used>> /\ pc' = "down"
  BY <1>1, <1>2 DEF HistoryInv, LedgerInv, OwnerInv, Touched, Admitted
<1>3. CASE /\ state' = [EnvelopeOf(run.auth) EXCEPT !.sessions = @ \cup {day}]
           /\ used' = [used EXCEPT ![run.auth] = @ \cup {day}]
           /\ \/ pc' = "live" /\ UNCHANGED run
              \/ pc' = "down"
  <2>1. /\ EnvelopeOf(run.auth).auth = run.auth
        /\ EnvelopeOf(run.auth).sessions = used[run.auth]
        /\ EnvelopeOf(run.auth).tripped = FALSE
        /\ EnvelopeOf(run.auth) \in State
    <3>1. CASE state.auth = run.auth
      BY <1>1, <3>1 DEF EnvelopeOf, HistoryInv, LedgerInv, Inv, TypeOK, State
    <3>2. CASE state.auth # run.auth
      BY <1>1, <3>2
         DEF EnvelopeOf, Fresh, HistoryInv, OwnerInv, Touched, State, Admitted
    <3>. QED
      BY <3>1, <3>2
  <2>2. /\ state'.auth = run.auth /\ state'.tripped = FALSE
        /\ state'.sessions = used[run.auth] \cup {day}
    BY <1>3, <2>1 DEF State
  <2>3. /\ used'[run.auth] = used[run.auth] \cup {day}
        /\ \A a \in Auths \ {run.auth} : used'[a] = used[a]
    BY <1>1, <1>3 DEF Inv, TypeOK
  <2>4. state.auth \in {run.auth, NoAuth}
    BY <1>1 DEF HistoryInv, OwnerInv
  <2>5. LedgerInv'
    BY <1>1, <2>2, <2>3, <2>4
       DEF HistoryInv, LedgerInv, OwnerInv, Touched, Admitted
  <2>6. OwnerInv'
    BY <1>1, <1>3, <2>2 DEF HistoryInv, OwnerInv, Touched, Admitted
  <2>. QED
    BY <2>5, <2>6 DEF HistoryInv
<1>. QED
  BY <1>2, <1>3 DEF BeginSession

LEMMA HistoryTick ==
    ASSUME Inv, HistoryInv, Tick
    PROVE  HistoryInv'
<1>1. /\ UNCHANGED <<files, run, used, past>> /\ pc = "ticking" /\ pc' = "live"
      /\ run.auth \in Auths /\ state.auth = run.auth
      /\ state.tripped <=> run.auth \in spent
  BY DEF Tick, Inv, RunInv, Admitted, HistoryInv, LedgerInv, OwnerInv
<1>2. PICK trip \in {state.tripped, TRUE} :
        /\ state' = [state EXCEPT !.tripped = trip]
        /\ spent' = IF trip THEN spent \cup {run.auth} ELSE spent
  BY DEF Tick
<1>3. state \in State /\ trip \in BOOLEAN
  BY <1>2 DEF Inv, TypeOK, State
<1>4. /\ state'.auth = run.auth /\ state'.sessions = state.sessions
      /\ state'.tripped = trip
  BY <1>1, <1>2, <1>3 DEF State
<1>5. /\ trip <=> run.auth \in spent'
      /\ \A a \in Auths \ {run.auth} : a \in spent' <=> a \in spent
  BY <1>1, <1>2, <1>3
<1>6. LedgerInv'
  BY <1>1, <1>4, <1>5 DEF HistoryInv, LedgerInv, Touched
<1>7. OwnerInv'
  BY <1>1, <1>4 DEF HistoryInv, OwnerInv, Admitted
<1>. QED
  BY <1>6, <1>7 DEF HistoryInv

LEMMA HistoryCorrect ==
    ASSUME ~MayReinstall
    PROVE  Spec => [](Inv /\ HistoryInv)
<1>1. Inv /\ HistoryInv /\ [Next]_vars => HistoryInv'
  <2> SUFFICES ASSUME Inv, HistoryInv, [Next]_vars PROVE HistoryInv'
    OBVIOUS
  <2>1. CASE RecordAuthorization \/ RecordSection94 \/ TouchKill
    BY <2>1, HistoryEdits
  <2>2. CASE Arm \/ BuildExecutor \/ BeginSession \/ Tick
    BY <2>2, HistoryArm, HistoryBuild, HistoryBegin, HistoryTick
  <2>3. CASE \/ Launch \/ CheckSection94 \/ ShadowEnds \/ TickInputFails
             \/ CloseSession \/ Crash \/ NextDay
    <3>1. pc' \notin Admitted /\ UNCHANGED <<files, state, used, spent, past>>
      BY <2>3 DEF Launch, CheckSection94, ShadowEnds, TickInputFails,
         CloseSession, Crash, NextDay, Admitted, history
    <3>. QED
      BY <3>1 DEF HistoryInv, LedgerInv, OwnerInv, Touched, Admitted
  <2>4. CASE LoopStops \/ LoopTicks
    BY <2>4 DEF LoopStops, LoopTicks, history, HistoryInv, LedgerInv,
       OwnerInv, Touched, Admitted
  <2>5. CASE UNCHANGED vars
    BY <2>5 DEF vars, HistoryInv, LedgerInv, OwnerInv, Touched
  <2>. QED
    BY <2>1, <2>2, <2>3, <2>4, <2>5 DEF Next, ProcessStep
<1>. QED
  BY <1>1, HistoryInit, InvCorrect, PTL DEF Spec

\* TripFinalCorrect: as long as no replaced authorization is put back, a
\* breached loss budget ends the days and the entries of its authorization.
THEOREM TripFinalCorrect ==
    ASSUME ~MayReinstall
    PROVE  Spec => TripIsFinal
<1>1. Inv /\ HistoryInv /\ [Next]_vars => [SpentIsOver]_vars
  <2> SUFFICES ASSUME Inv, HistoryInv, Next, NEW a \in spent
               PROVE  /\ used'[a] = used[a]
                      /\ Entries(sent', a) = Entries(sent, a)
    BY DEF SpentIsOver
  <2>1. CASE Tick
    <3>1. PICK kinds \in SUBSET {"entry", "exit"} :
            /\ state.tripped => "entry" \notin kinds
            /\ sent' = sent \cup [auth : {run.auth}, day : {day},
                                  port : {run.port}, kind : kinds]
      BY <2>1 DEF Tick, Sends
    <3>2. /\ used' = used /\ run.auth \in Auths
          /\ run.auth \in spent => state.tripped
      BY <2>1 DEF Tick, Inv, RunInv, Admitted, HistoryInv, LedgerInv, OwnerInv
    <3>3. \A o \in sent' \ sent :
             o.auth = run.auth /\ (run.auth \in spent => o.kind # "entry")
      BY <3>1, <3>2
    <3>4. sent \subseteq sent'
      BY <3>1
    <3>. QED
      BY <3>2, <3>3, <3>4 DEF Entries
  <2>2. CASE BeginSession
    <3>1. run.auth \notin spent /\ sent' = sent
      BY <2>2 DEF BeginSession, HistoryInv, OwnerInv
    <3>2. \A b \in Auths \ {run.auth} : used'[b] = used[b]
      BY <2>2 DEF BeginSession, Inv, TypeOK
    <3>. QED
      BY <3>1, <3>2 DEF Inv, TypeOK
  <2>3. CASE ~Tick /\ ~BeginSession
    <3>1. UNCHANGED <<sent, used>>
      BY <2>3 DEF Next, ProcessStep, RecordAuthorization, RecordSection94,
         TouchKill, Edit, Launch, CheckSection94, Arm, ShadowEnds,
         BuildExecutor, LoopStops, LoopTicks, TickInputFails, CloseSession,
         Crash, NextDay, history
    <3>. QED
      BY <3>1
  <2>. QED
    BY <2>1, <2>2, <2>3
<1>2. Spec => [](Inv /\ HistoryInv)
  BY HistoryCorrect
<1>. QED
  BY <1>1, <1>2, PTL DEF Spec, TripIsFinal

\* EnvelopeOfEach: under the same assumption the days and the trip of every
\* authorization implement its own abstract envelope.
THEOREM EnvelopeOfEach ==
    ASSUME ~MayReinstall
    PROVE  Spec => EnvelopePerAuthorization
<1>1. Init => \A a \in Auths : Env(a)!Init
  BY DEF Init, Env!Init
<1>2. Inv /\ HistoryInv /\ [Next]_vars =>
        [\A a \in Auths : [Env(a)!Next]_<<used[a], a \in spent>>]_vars
  <2> SUFFICES ASSUME Inv, HistoryInv, Next, NEW a \in Auths
               PROVE  [Env(a)!Next]_<<used[a], a \in spent>>
    OBVIOUS
  <2>1. CASE Tick
    <3>1. /\ used' = used /\ used[run.auth] # {}
          /\ spent' = spent \/ spent' = spent \cup {run.auth}
      BY <2>1 DEF Tick, Inv, RunInv
    <3>. QED
      BY <3>1 DEF Env!Next, Env!Trip
  <2>2. CASE BeginSession
    <3>1. spent' = spent
      BY <2>2 DEF BeginSession
    <3>2. CASE used'[a] = used[a]
      BY <3>1, <3>2
    <3>3. CASE used'[a] # used[a]
      <4>1. /\ SlotLeft(EnvelopeOf(run.auth)) /\ run.auth \in Auths
            /\ used' = [used EXCEPT ![run.auth] = @ \cup {day}]
        BY <2>2, <3>3 DEF BeginSession, Inv, RunInv, Admitted
      <4>2. /\ a = run.auth /\ used'[a] = used[a] \cup {day}
            /\ day \in Days \ used[a]
        BY <3>3, <4>1 DEF Inv, TypeOK
      <4>3. EnvelopeOf(a).sessions = used[a]
        BY <2>2, <4>2 DEF BeginSession, EnvelopeOf, Fresh, HistoryInv,
           LedgerInv, OwnerInv, Touched, Admitted
      <4>4. Cardinality(used[a]) < MaxSessions[a]
        BY <4>1, <4>2, <4>3 DEF SlotLeft
      <4>5. Env(a)!Cardinality(used[a]) = Cardinality(used[a])
        BY DEF Env!Cardinality, Env!IsFiniteSet, Cardinality, IsFiniteSet
      <4>. QED
        BY <3>1, <4>2, <4>4, <4>5 DEF Env!Next, Env!Use
    <3>. QED
      BY <3>2, <3>3
  <2>3. CASE ~Tick /\ ~BeginSession
    <3>1. UNCHANGED <<used, spent>>
      BY <2>3 DEF Next, ProcessStep, RecordAuthorization, RecordSection94,
         TouchKill, Edit, Launch, CheckSection94, Arm, ShadowEnds,
         BuildExecutor, LoopStops, LoopTicks, TickInputFails, CloseSession,
         Crash, NextDay, history
    <3>. QED
      BY <3>1
  <2>. QED
    BY <2>1, <2>2, <2>3
<1>3. Spec => [](Inv /\ HistoryInv)
  BY HistoryCorrect
<1>. QED
  BY <1>1, <1>2, <1>3, PTL DEF Spec, EnvelopePerAuthorization
=============================================================================
