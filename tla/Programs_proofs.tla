-------------------------- MODULE Programs_proofs --------------------------
(***************************************************************************)
(* Theorems of the parts of MCPrograms, for every value of its constants.  *)
(* A part's own invariant is proved of its module, and then of MCPrograms  *)
(* while that part is explored.                                            *)
(***************************************************************************)
EXTENDS MCPrograms, Integers, SequenceTheorems, FiniteSetTheorems, WellFoundedInduction,
        TLAPS

-----------------------------------------------------------------------------
(***************************************************************************)
(* Wrappers: the reports a service makes of its runs.  They are right      *)
(* whatever Missing is: a handler whose dependencies are stored as the     *)
(* value Missing panics and reports nothing.                               *)
(***************************************************************************)
Phase == {"new", "arrived", "on", "popped", "ended", "panicked"}

RunRecord == [phase : Phase, ca : Args \cup {Missing}, caller : {"client", "service", Missing},
              ro : BOOLEAN, map : SUBSET Name]

PrefetchRecord == [phase : {"none", "on", "loaded", "ended"}, todo : SUBSET Name]

StartRequest == [type : {"start"}, id : Id]
EndRequest == [type : {"end"}, id : Id, ca : Args \cup {Missing}, names : SUBSET Name]

RunTypes ==
    /\ runs \in [Id -> RunRecord]
    /\ deps \in [Id \cup Args -> (SUBSET Name) \cup {Missing}]
    /\ prefetch \in [Id -> PrefetchRecord]
    /\ read \in [Id -> SUBSET Name]
    /\ told \subseteq StartRequest \cup EndRequest

\* names hold what run id read, and only that if it left no goroutine.
Reported(id, names) ==
    /\ read[id] \subseteq names
    /\ prefetch[id] = Wrappers!NoPrefetch => names = read[id]

Announced(id) == [type |-> "start", id |-> id] \in told

\* What is known of a run before it reports: nothing was read and nothing was
\* left behind before it is on; then deps hold what it read, and once they
\* are popped the map of the run does.
RunGood(id) ==
    /\ runs[id].phase \in {"new", "arrived"} =>
          read[id] = {} /\ prefetch[id] = Wrappers!NoPrefetch
    /\ Wrappers!On(id) /\ ~Wrappers!Tracked(id) => read[id] = {}
    /\ Wrappers!On(id) /\ Wrappers!Tracked(id) => Announced(id) /\ Reported(id, deps[id])
    /\ runs[id].phase = "popped" => Announced(id) /\ Reported(id, runs[id].map)

\* What is known of an end request: its run is over.
EndGood(m) ==
    /\ runs[m.id].phase = "ended"
    /\ Announced(m.id)
    /\ Reported(m.id, m.names)

ReportInv ==
    /\ RunTypes
    /\ \A id \in Id : RunGood(id)
    /\ \A m \in Wrappers!Ends : EndGood(m)

\* The actions of one run.
RunStep(id) ==
    \/ \E ca \in Args, caller \in {"client", "service"}, ro \in BOOLEAN :
          Wrappers!SetupCtxFromHTTPReq(id, ca, caller, ro)
    \/ Wrappers!PreReqStart(id)
    \/ \E name \in Name : Wrappers!AddDep(id, name)
    \/ \E names \in SUBSET Name : Wrappers!LeavePrefetch(id, names)
    \/ Wrappers!PrefetchLoad(id)
    \/ Wrappers!PrefetchStore(id)
    \/ Wrappers!Panic(id)
    \/ Wrappers!PopDeps(id)
    \/ Wrappers!PreReqEnd(id)

LEMMA EndsTyped ==
    ASSUME RunTypes
    PROVE  \A m \in Wrappers!Ends : m \in EndRequest /\ m.id \in Id /\ m.names \in SUBSET Name
<1>1. ASSUME NEW m \in Wrappers!Ends  PROVE m \in EndRequest
    BY <1>1 DEF Wrappers!Ends, RunTypes, StartRequest, EndRequest
<1> QED
    BY <1>1 DEF EndRequest

LEMMA ReportInit == Wrappers!Init => ReportInv
<1> SUFFICES ASSUME Wrappers!Init  PROVE ReportInv
    OBVIOUS
<1>1. RunTypes
    <2>1. Wrappers!NoRun \in RunRecord /\ Wrappers!NoPrefetch \in PrefetchRecord
        BY DEF RunRecord, Phase, PrefetchRecord, Wrappers!NoRun, Wrappers!NoPrefetch
    <2> QED
        BY <2>1 DEF Wrappers!Init, RunTypes
<1>2. ASSUME NEW id \in Id  PROVE RunGood(id)
    BY DEF Wrappers!Init, RunGood, Wrappers!On, Wrappers!NoRun
<1> QED
    BY <1>1, <1>2 DEF ReportInv, Wrappers!Init, Wrappers!Ends

-----------------------------------------------------------------------------
\* One lemma per kind of step; Typed says that it keeps the types.

LEMMA RunsTyped ==
    ASSUME RunTypes, NEW id \in Id, RunStep(id)
    PROVE  RunTypes'
<1> USE DEF RunTypes, Wrappers!To, Wrappers!Tracked, Wrappers!On, Wrappers!Index
<1>1. ASSUME NEW ca \in Args, NEW caller \in {"client", "service"}, NEW ro \in BOOLEAN,
             Wrappers!SetupCtxFromHTTPReq(id, ca, caller, ro)
      PROVE RunTypes'
    <2>1. [phase |-> "arrived", ca |-> ca, caller |-> caller, ro |-> ro, map |-> {}] \in RunRecord
        BY DEF RunRecord, Phase
    <2> QED
        BY <1>1, <2>1 DEF Wrappers!SetupCtxFromHTTPReq
<1>2. CASE Wrappers!PreReqStart(id)
    <2>1. runs' \in [Id -> RunRecord]
        BY <1>2 DEF Wrappers!PreReqStart, RunRecord, Phase
    <2>2. [type |-> "start", id |-> id] \in StartRequest
        BY DEF StartRequest
    <2> QED
        BY <1>2, <2>1, <2>2 DEF Wrappers!PreReqStart
<1>3. ASSUME NEW name \in Name, Wrappers!AddDep(id, name)  PROVE RunTypes'
    <2>1. runs' = runs \/ runs' = [runs EXCEPT ![id].phase = "panicked"]
        BY <1>3 DEF Wrappers!AddDep
    <2>2. CASE runs' = runs
        BY <1>3, <2>2 DEF Wrappers!AddDep
    <2>3. CASE runs' = [runs EXCEPT ![id].phase = "panicked"]
        <3>1. PICK old \in RunRecord : old = runs[id]
            OBVIOUS
        <3>2. [old EXCEPT !.phase = "panicked"] \in RunRecord
            BY DEF RunRecord, Phase
        <3>3. runs' = [runs EXCEPT ![id] = [old EXCEPT !.phase = "panicked"]]
            BY <2>3, <3>1
        <3>4. runs' \in [Id -> RunRecord]
            BY <3>2, <3>3
        <3> QED
            BY <1>3, <3>4 DEF Wrappers!AddDep
    <2> QED
        BY <2>1, <2>2, <2>3
<1>4. ASSUME NEW names \in SUBSET Name, Wrappers!LeavePrefetch(id, names)  PROVE RunTypes'
    BY <1>4 DEF Wrappers!LeavePrefetch, PrefetchRecord
<1>5. CASE Wrappers!PrefetchLoad(id)
    BY <1>5 DEF Wrappers!PrefetchLoad, PrefetchRecord
<1>6. CASE Wrappers!PrefetchStore(id)
    <2> PICK name \in prefetch[id].todo :
          /\ prefetch' = [prefetch EXCEPT ![id] = [phase |-> "on", todo |-> @.todo \ {name}]]
          /\ IF deps[Wrappers!Index(id)] # Missing
             THEN deps' = [deps EXCEPT ![Wrappers!Index(id)] = @ \cup {name}] /\ UNCHANGED runs
             ELSE runs' = [runs EXCEPT ![id].map = @ \cup {name}] /\ UNCHANGED deps
        BY <1>6 DEF Wrappers!PrefetchStore
    <2>1. name \in Name /\ prefetch[id].todo \subseteq Name
        BY DEF PrefetchRecord
    <2>2. prefetch' \in [Id -> PrefetchRecord]
        BY <2>1 DEF PrefetchRecord
    <2>3. runs' \in [Id -> RunRecord]
        <3>1. PICK old \in RunRecord : old = runs[id]
            OBVIOUS
        <3>2. [old EXCEPT !.map = old.map \cup {name}] \in RunRecord
            BY <2>1 DEF RunRecord
        <3>3. CASE runs' = [runs EXCEPT ![id].map = @ \cup {name}]
            <4>1. runs' = [runs EXCEPT ![id] = [old EXCEPT !.map = old.map \cup {name}]]
                BY <3>1, <3>3
            <4> QED
                BY <3>2, <4>1
        <3> QED
            BY <3>3
    <2>4. deps' \in [Id \cup Args -> (SUBSET Name) \cup {Missing}]
        BY <2>1
    <2> QED
        BY <1>6, <2>2, <2>3, <2>4 DEF Wrappers!PrefetchStore
<1>7. CASE Wrappers!Panic(id)
    BY <1>7 DEF Wrappers!Panic, RunRecord, Phase
<1>8. CASE Wrappers!PopDeps(id)
    <2>1. CASE runs' = [runs EXCEPT ![id].phase = "popped", ![id].map = deps[id]]
               /\ deps[id] # Missing
        <3>1. deps[id] \in SUBSET Name
            BY <2>1
        <3>2. PICK old \in RunRecord : old = runs[id]
            OBVIOUS
        <3>3. [old EXCEPT !.phase = "popped", !.map = deps[id]] \in RunRecord
            BY <3>1 DEF RunRecord, Phase
        <3>4. runs' = [runs EXCEPT ![id] = [old EXCEPT !.phase = "popped", !.map = deps[id]]]
            BY <2>1, <3>2
        <3> QED
            BY ZenonT(40), <1>8, <2>1, <3>3, <3>4 DEF Wrappers!PopDeps
    <2>2. CASE runs' = [runs EXCEPT ![id].phase = "ended"]
        BY <1>8, <2>2 DEF Wrappers!PopDeps, RunRecord, Phase
    <2>3. CASE runs' = [runs EXCEPT ![id].phase = "panicked"]
        BY SMTT(30), <1>8, <2>3 DEF Wrappers!PopDeps, RunRecord, Phase
    <2> QED
        BY <1>8, <2>1, <2>2, <2>3 DEF Wrappers!PopDeps
<1>9. CASE Wrappers!PreReqEnd(id)
    <2>1. runs' \in [Id -> RunRecord]
        BY SMTT(30), <1>9 DEF Wrappers!PreReqEnd, RunRecord, Phase
    <2>2. [type |-> "end", id |-> id, ca |-> runs[id].ca, names |-> runs[id].map] \in EndRequest
        BY DEF RunRecord, EndRequest
    <2> QED
        BY <1>9, <2>1, <2>2 DEF Wrappers!PreReqEnd
<1> QED
    BY <1>1, <1>2, <1>3, <1>4, <1>5, <1>6, <1>7, <1>8, <1>9 DEF RunStep

\* A step of run id leaves what is kept under the other ids alone.
LEMMA OthersKept ==
    ASSUME RunTypes, NEW id \in Id, RunStep(id), NEW other \in Id, other # id
    PROVE  /\ runs'[other] = runs[other] /\ deps'[other] = deps[other]
           /\ prefetch'[other] = prefetch[other] /\ read'[other] = read[other]
           /\ told \subseteq told'
<1> USE DEF RunTypes, Wrappers!To, Wrappers!Index
<1>1. ASSUME NEW ca \in Args, NEW caller \in {"client", "service"}, NEW ro \in BOOLEAN,
             Wrappers!SetupCtxFromHTTPReq(id, ca, caller, ro)
      PROVE /\ runs'[other] = runs[other] /\ deps'[other] = deps[other]
            /\ prefetch'[other] = prefetch[other] /\ read'[other] = read[other]
            /\ told \subseteq told'
    BY <1>1 DEF Wrappers!SetupCtxFromHTTPReq
<1>2. CASE Wrappers!PreReqStart(id)
    BY <1>2 DEF Wrappers!PreReqStart
<1>3. ASSUME NEW name \in Name, Wrappers!AddDep(id, name)
      PROVE /\ runs'[other] = runs[other] /\ deps'[other] = deps[other]
            /\ prefetch'[other] = prefetch[other] /\ read'[other] = read[other]
            /\ told \subseteq told'
    BY <1>3 DEF Wrappers!AddDep
<1>4. ASSUME NEW names \in SUBSET Name, Wrappers!LeavePrefetch(id, names)
      PROVE /\ runs'[other] = runs[other] /\ deps'[other] = deps[other]
            /\ prefetch'[other] = prefetch[other] /\ read'[other] = read[other]
            /\ told \subseteq told'
    BY <1>4 DEF Wrappers!LeavePrefetch
<1>5. CASE Wrappers!PrefetchLoad(id)
    BY <1>5 DEF Wrappers!PrefetchLoad
<1>6. CASE Wrappers!PrefetchStore(id)
    BY <1>6 DEF Wrappers!PrefetchStore
<1>7. CASE Wrappers!Panic(id)
    BY <1>7 DEF Wrappers!Panic
<1>8. CASE Wrappers!PopDeps(id)
    BY <1>8 DEF Wrappers!PopDeps
<1>9. CASE Wrappers!PreReqEnd(id)
    BY <1>9 DEF Wrappers!PreReqEnd
<1> QED
    BY <1>1, <1>2, <1>3, <1>4, <1>5, <1>6, <1>7, <1>8, <1>9 DEF RunStep

\* A step of run id keeps what is known of it, unless it is over already.
LEMMA StepOfRun ==
    ASSUME RunTypes, NEW id \in Id, RunGood(id), RunStep(id)
    PROVE  RunGood(id)'
<1> USE DEF RunTypes, Wrappers!To, Wrappers!Tracked, Wrappers!On, Wrappers!Index,
   RunGood, Announced, Reported
<1>1. ASSUME NEW ca \in Args, NEW caller \in {"client", "service"}, NEW ro \in BOOLEAN,
             Wrappers!SetupCtxFromHTTPReq(id, ca, caller, ro)
      PROVE RunGood(id)'
    BY <1>1 DEF Wrappers!SetupCtxFromHTTPReq, Wrappers!NoRun
<1>2. CASE Wrappers!PreReqStart(id)
    <2>1. runs' = [runs EXCEPT ![id].phase = "on"] /\ runs[id].phase = "arrived"
        BY <1>2 DEF Wrappers!PreReqStart
    <2>2. runs'[id].phase = "on" /\ runs'[id].ro = runs[id].ro
              /\ runs'[id].caller = runs[id].caller
        BY <2>1 DEF RunRecord
    <2>3. read'[id] = {} /\ prefetch'[id] = Wrappers!NoPrefetch
        BY <1>2, <2>1 DEF Wrappers!PreReqStart
    <2>4. Wrappers!Tracked(id) => Announced(id)' /\ deps'[id] = {}
        BY <1>2 DEF Wrappers!PreReqStart
    <2> QED
        BY <2>2, <2>3, <2>4
<1>3. ASSUME NEW name \in Name, Wrappers!AddDep(id, name)  PROVE RunGood(id)'
    <2>1. CASE runs' = [runs EXCEPT ![id].phase = "panicked"]
        BY <1>3, <2>1 DEF Wrappers!AddDep, RunRecord
    <2>2. CASE UNCHANGED <<runs, deps, read>>
        BY <1>3, <2>2 DEF Wrappers!AddDep
    <2>3. CASE /\ Wrappers!Tracked(id) /\ deps[id] # Missing
               /\ deps' = [deps EXCEPT ![id] = deps[id] \cup {name}]
               /\ read' = [read EXCEPT ![id] = read[id] \cup {name}]
               /\ UNCHANGED runs
        <3>1. deps'[id] = deps[id] \cup {name} /\ read'[id] = read[id] \cup {name}
            BY <2>3
        <3>2. Announced(id) /\ Reported(id, deps[id]) /\ Wrappers!On(id)
            BY <1>3, <2>3 DEF Wrappers!AddDep
        <3>3. UNCHANGED <<runs, prefetch, told>>
            BY <1>3, <2>3 DEF Wrappers!AddDep
        <3>4. Reported(id, deps[id])' /\ Announced(id)'
            BY <3>1, <3>2, <3>3
        <3>5. runs[id].phase = "on" /\ runs'[id] = runs[id]
            BY <3>2, <3>3
        <3>6. Wrappers!Tracked(id)'
            BY <2>3, <3>5
        <3> QED
            BY <3>4, <3>5, <3>6
    <2> QED
        BY <1>3, <2>1, <2>2, <2>3 DEF Wrappers!AddDep
<1>4. ASSUME NEW names \in SUBSET Name, Wrappers!LeavePrefetch(id, names)  PROVE RunGood(id)'
    <2>1. prefetch'[id] = [phase |-> "on", todo |-> names]
        BY <1>4 DEF Wrappers!LeavePrefetch
    <2>2. prefetch'[id] # Wrappers!NoPrefetch
        BY <2>1 DEF Wrappers!NoPrefetch
    <2> QED
        BY <1>4, <2>2 DEF Wrappers!LeavePrefetch
<1>5. CASE Wrappers!PrefetchLoad(id)
    <2>1. prefetch[id] # Wrappers!NoPrefetch
        BY <1>5 DEF Wrappers!PrefetchLoad, Wrappers!NoPrefetch
    <2>2. prefetch'[id] # Wrappers!NoPrefetch
        BY <1>5 DEF Wrappers!PrefetchLoad, Wrappers!NoPrefetch, PrefetchRecord
    <2> QED
        BY <1>5, <2>1, <2>2 DEF Wrappers!PrefetchLoad
<1>6. CASE Wrappers!PrefetchStore(id)
    <2> PICK name \in prefetch[id].todo :
          /\ prefetch' = [prefetch EXCEPT ![id] = [phase |-> "on", todo |-> @.todo \ {name}]]
          /\ IF deps[Wrappers!Index(id)] # Missing
             THEN deps' = [deps EXCEPT ![Wrappers!Index(id)] = @ \cup {name}] /\ UNCHANGED runs
             ELSE runs' = [runs EXCEPT ![id].map = @ \cup {name}] /\ UNCHANGED deps
        BY <1>6 DEF Wrappers!PrefetchStore
    <2>1. prefetch[id] # Wrappers!NoPrefetch
        BY <1>6 DEF Wrappers!PrefetchStore, Wrappers!NoPrefetch
    <2>2. prefetch'[id] # Wrappers!NoPrefetch
        BY DEF Wrappers!NoPrefetch
    <2>3. /\ runs'[id].phase = runs[id].phase /\ runs'[id].ro = runs[id].ro
          /\ runs'[id].caller = runs[id].caller /\ runs[id].map \subseteq runs'[id].map
        BY DEF RunRecord
    <2>4. read[id] \subseteq deps[id] => read[id] \subseteq deps'[id]
        OBVIOUS
    <2>5. UNCHANGED <<read, told>>
        BY <1>6 DEF Wrappers!PrefetchStore
    <2>6. runs[id].phase \notin {"new", "arrived"}
        BY <2>1
    <2> QED
        BY <2>2, <2>3, <2>4, <2>5, <2>6
<1>7. CASE Wrappers!Panic(id)
    BY <1>7 DEF Wrappers!Panic, RunRecord, Phase
<1>8. CASE Wrappers!PopDeps(id)
    BY <1>8 DEF Wrappers!PopDeps, RunRecord, Phase
<1>9. CASE Wrappers!PreReqEnd(id)
    BY <1>9 DEF Wrappers!PreReqEnd, RunRecord, Phase
<1> QED
    BY <1>1, <1>2, <1>3, <1>4, <1>5, <1>6, <1>7, <1>8, <1>9 DEF RunStep

\* A run that is over stays over: it reads nothing more, and leaves nothing
\* behind that it had not left already.
LEMMA OverStaysOver ==
    ASSUME RunTypes, NEW id \in Id, runs[id].phase = "ended", RunStep(id)
    PROVE  /\ runs'[id].phase = "ended" /\ read'[id] = read[id] /\ told' = told
           /\ prefetch'[id] = Wrappers!NoPrefetch => prefetch[id] = Wrappers!NoPrefetch
<1>1. ~(runs[id] = Wrappers!NoRun) /\ ~Wrappers!On(id)
    BY DEF Wrappers!NoRun, Wrappers!On
<1>2. Wrappers!PrefetchLoad(id) \/ Wrappers!PrefetchStore(id)
    BY <1>1 DEF RunStep, Wrappers!SetupCtxFromHTTPReq, Wrappers!PreReqStart,
       Wrappers!AddDep, Wrappers!LeavePrefetch, Wrappers!Panic, Wrappers!PopDeps,
       Wrappers!PreReqEnd
<1>3. prefetch'[id] # Wrappers!NoPrefetch
    BY <1>2 DEF RunTypes, Wrappers!PrefetchLoad, Wrappers!PrefetchStore,
       Wrappers!NoPrefetch, PrefetchRecord
<1>4. runs'[id].phase = "ended"
    BY <1>2 DEF RunTypes, Wrappers!PrefetchLoad, Wrappers!PrefetchStore, RunRecord
<1> QED
    BY <1>2, <1>3, <1>4 DEF Wrappers!PrefetchLoad, Wrappers!PrefetchStore

\* Only PreReqEnd sends an end request.
LEMMA EndSent ==
    ASSUME RunTypes, NEW id \in Id, RunStep(id), NEW m \in Wrappers!Ends', m \notin Wrappers!Ends
    PROVE  Wrappers!PreReqEnd(id) /\ m.id = id /\ m.names = runs[id].map
<1>1. m \in told' /\ m \notin told /\ m.type = "end"
    BY DEF Wrappers!Ends
<1>2. ~(m = [type |-> "start", id |-> id])
    BY <1>1
<1> QED
    BY <1>1, <1>2 DEF RunStep, Wrappers!SetupCtxFromHTTPReq, Wrappers!PreReqStart,
       Wrappers!AddDep, Wrappers!LeavePrefetch, Wrappers!PrefetchLoad,
       Wrappers!PrefetchStore, Wrappers!Panic, Wrappers!PopDeps, Wrappers!PreReqEnd

LEMMA ReportNext == ReportInv /\ [Wrappers!Next]_(Wrappers!vars) => ReportInv'
<1> SUFFICES ASSUME ReportInv, [Wrappers!Next]_(Wrappers!vars)  PROVE ReportInv'
    OBVIOUS
<1>1. CASE UNCHANGED Wrappers!vars
    BY <1>1 DEF ReportInv, Wrappers!vars, RunTypes, RunGood, EndGood, Reported,
       Announced, Wrappers!Ends, Wrappers!On, Wrappers!Tracked
<1>2. CASE Wrappers!Next
    <2> PICK id \in Id : RunStep(id)
        BY <1>2 DEF Wrappers!Next, RunStep
    <2>1. RunTypes'
        BY RunsTyped DEF ReportInv
    <2>2. ASSUME NEW other \in Id  PROVE RunGood(other)'
        <3>1. CASE other = id
            BY <3>1, StepOfRun DEF ReportInv
        <3>2. CASE other # id
            <4>1. /\ runs'[other] = runs[other] /\ deps'[other] = deps[other]
                  /\ prefetch'[other] = prefetch[other] /\ read'[other] = read[other]
                  /\ told \subseteq told'
                BY <3>2, OthersKept DEF ReportInv
            <4> QED
                BY <4>1 DEF ReportInv, RunGood, Wrappers!On, Wrappers!Tracked, Announced,
                   Reported
        <3> QED
            BY <3>1, <3>2
    <2>3. ASSUME NEW m \in Wrappers!Ends'  PROVE EndGood(m)'
        <3>1. CASE m \in Wrappers!Ends
            <4>1. EndGood(m) /\ m.id \in Id
                BY <3>1, EndsTyped DEF ReportInv
            <4>2. CASE m.id = id
                <5>1. /\ runs'[id].phase = "ended" /\ read'[id] = read[id] /\ told' = told
                      /\ prefetch'[id] = Wrappers!NoPrefetch => prefetch[id] = Wrappers!NoPrefetch
                    BY <4>1, <4>2, OverStaysOver DEF ReportInv, EndGood
                <5> QED
                    BY <4>1, <4>2, <5>1 DEF EndGood, Announced, Reported
            <4>3. CASE m.id # id
                <5>1. /\ runs'[m.id] = runs[m.id] /\ prefetch'[m.id] = prefetch[m.id]
                      /\ read'[m.id] = read[m.id] /\ told \subseteq told'
                    BY <4>1, <4>3, OthersKept DEF ReportInv
                <5> QED
                    BY <4>1, <5>1 DEF EndGood, Announced, Reported
            <4> QED
                BY <4>2, <4>3
        <3>2. CASE m \notin Wrappers!Ends
            <4>1. Wrappers!PreReqEnd(id) /\ m.id = id /\ m.names = runs[id].map
                BY <3>2, EndSent DEF ReportInv
            <4>2. Announced(id) /\ Reported(id, runs[id].map)
                BY <4>1 DEF ReportInv, RunGood, Wrappers!PreReqEnd
            <4>3. runs'[id].phase = "ended"
                BY <4>1 DEF ReportInv, RunTypes, RunRecord, Wrappers!PreReqEnd,
                   Wrappers!To
            <4> QED
                BY <4>1, <4>2, <4>3 DEF Wrappers!PreReqEnd, EndGood, Announced, Reported
        <3> QED
            BY <3>1, <3>2
    <2> QED
        BY <2>1, <2>2, <2>3 DEF ReportInv
<1> QED
    BY <1>1, <1>2

(***************************************************************************)
(* For any runs, arguments and names: the end requests of PreReqEnd name   *)
(* all that their own handlers read, PreRead and PreCall, and nothing else *)
(* unless the run left a goroutine behind, and every one follows a start.  *)
(***************************************************************************)
THEOREM ReportsAreOwn == Spec => []EndsReportReads
<1>. DEFINE Part == part = "wrappers" => ReportInv
<1>1. Init => Part
    BY ReportInit DEF Init
<1>2. Part /\ [Next]_vars => Part'
    <2>1. ASSUME Part, Next, part' = "wrappers"  PROVE ReportInv'
        <3>1. part = "wrappers" /\ Wrappers!Next
            BY <2>1 DEF Next, AroundStores
        <3>. QED
            BY <2>1, <3>1, ReportNext
    <2>2. ASSUME Part, UNCHANGED vars, part' = "wrappers"  PROVE ReportInv'
        <3>1. part = "wrappers" /\ UNCHANGED Wrappers!vars
            BY <2>2 DEF vars, Wrappers!vars, wrapperVars, shardVars
        <3>. QED
            BY <2>2, <3>1, ReportNext
    <2>. QED
        BY <2>1, <2>2
<1>3. Part => EndsReportReads
    BY DEF ReportInv, EndGood, Reported, Announced, EndsReportReads, Wrappers!EndsReportReads
<1>. HIDE DEF Part
<1>. QED
    BY <1>1, <1>2, <1>3, PTL DEF Spec

-----------------------------------------------------------------------------
(***************************************************************************)
(* Shards: the invariant of Shards_proofs, with the wiring of this         *)
(* instance.                                                               *)
(***************************************************************************)
SP == INSTANCE Shards_proofs
        WITH None <- Missing, Caller <- CallerShard, Call <- ShardCall, Key <- ShardKey,
             HashShard <- ShardHash, KeyOf <- ShardKeyOf, QueueSize <- ShardQueueSize

\* The lemmas of Shards_proofs are about the same operators and actions.
LEMMA SameState ==
    ASSUME NEW h, NEW ca
    PROVE  /\ Shards!AppendCall(h, ca) = SP!AppendCall(h, ca)
           /\ Shards!AppendWrite(h, ca) = SP!AppendWrite(h, ca)
           /\ Shards!InvalidatedSince(h, ca) = SP!InvalidatedSince(h, ca)
           /\ Shards!Forgotten(h, ca) = SP!Forgotten(h, ca)
  <1>1. Shards!StartsOf(h, ca) = SP!StartsOf(h, ca)
    BY DEF Shards!StartsOf, SP!StartsOf, Shards!IsCallArgSet, SP!IsCallArgSet
  <1>2. Shards!Walked(h, ca) = SP!Walked(h, ca)
    BY <1>1 DEF Shards!Walked, SP!Walked
  <1>3. Shards!InvalidatedSince(h, ca) = SP!InvalidatedSince(h, ca)
    BY <1>2 DEF Shards!InvalidatedSince, SP!InvalidatedSince, Shards!IsCallArgSet,
       SP!IsCallArgSet
  <1>4. Shards!RemoveStart(h, ca) = SP!RemoveStart(h, ca)
    BY <1>2 DEF Shards!RemoveStart, SP!RemoveStart, Shards!IsCallArgSet, SP!IsCallArgSet
  <1>5. \A g, j : Shards!CollectsFrom(g, j) = SP!CollectsFrom(g, j)
    BY DEF Shards!CollectsFrom, SP!CollectsFrom, Shards!HasCalls, SP!HasCalls,
       Shards!IsCallArgSet, SP!IsCallArgSet
  <1>6. Shards!Forgotten(h, ca) = SP!Forgotten(h, ca)
    BY <1>1, <1>4, <1>5 DEF Shards!Forgotten, SP!Forgotten
  <1>. QED
    BY <1>3, <1>6 DEF Shards!AppendCall, SP!AppendCall, Shards!AppendWrite, SP!AppendWrite,
       Shards!IsCallArgSet, SP!IsCallArgSet

LEMMA SameSteps ==
    /\ Shards!Init <=> SP!Init
    /\ Shards!vars = SP!vars
    /\ Shards!Next <=> SP!Next
  <1>. USE SameState DEF Shards!manager, SP!manager, Shards!Post, SP!Post, Shards!Take, SP!Take,
         Shards!Tell, SP!Tell, Shards!Idle, SP!Idle
  <1>1. Shards!Init <=> SP!Init
    BY DEF Shards!Init, SP!Init, Shards!NoDeps, SP!NoDeps, Shards!Dep, SP!Dep
  <1>2. Shards!vars = SP!vars
    BY DEF Shards!vars, SP!vars
  <1>3. ASSUME NEW a, NEW c
        PROVE  /\ Shards!Deliver(a) <=> SP!Deliver(a)
               /\ Shards!ShardInvoke(a, c) <=> SP!ShardInvoke(a, c)
               /\ Shards!Start(c) <=> SP!Start(c)
               /\ Shards!GetState(c) <=> SP!GetState(c)
               /\ Shards!End(c) <=> SP!End(c)
    BY DEF Shards!Deliver, SP!Deliver, Shards!ShardInvoke, SP!ShardInvoke, Shards!Start,
       SP!Start, Shards!GetState, SP!GetState, Shards!End, SP!End
  <1>4. ASSUME NEW s, NEW k
        PROVE  /\ Shards!SetState(s, k) <=> SP!SetState(s, k)
               /\ Shards!PostWrite(s, k) <=> SP!PostWrite(s, k)
               /\ Shards!Forward(s, k) <=> SP!Forward(s, k)
    BY DEF Shards!SetState, SP!SetState, Shards!PostWrite, SP!PostWrite, Shards!Forward,
       SP!Forward
  <1>5. ASSUME NEW s PROVE Shards!ProcessStart(s) <=> SP!ProcessStart(s)
    BY DEF Shards!ProcessStart, SP!ProcessStart
  <1>6. ASSUME NEW s PROVE Shards!ProcessEnd(s) <=> SP!ProcessEnd(s)
    BY SMTT(30) DEF Shards!ProcessEnd, SP!ProcessEnd, Shards!ValidCall, SP!ValidCall,
       Shards!StoreDeps, SP!StoreDeps, Shards!Dep, SP!Dep
  <1>7. ASSUME NEW s PROVE Shards!TakeInvalidation(s) <=> SP!TakeInvalidation(s)
    BY DEF Shards!TakeInvalidation, SP!TakeInvalidation, Shards!Neighbors, SP!Neighbors
  <1>8. ASSUME NEW s PROVE Shards!Invalidate(s) <=> SP!Invalidate(s)
    BY DEF Shards!Invalidate, SP!Invalidate, Shards!Popped, SP!Popped, Shards!PopDeps,
       SP!PopDeps, Shards!Dep, SP!Dep
  <1>9. Shards!Next <=> SP!Next
    BY <1>3, <1>4, <1>5, <1>6, <1>7, <1>8 DEF Shards!Next, SP!Next
  <1>. QED
    BY <1>1, <1>2, <1>9

\* There are shards and keys, and Missing is neither a key nor a version.
ShardsAssumption ==
    Shard # {} /\ ShardKey # {} /\ Missing \notin ShardKey /\ Missing \notin Nat

(***************************************************************************)
(* GetNeighbors and the forwarding of Process: a stale line of the         *)
(* callers' cache has an invalidation or a replacement on its way,         *)
(* whichever shard wrote.                                                  *)
(***************************************************************************)
THEOREM ShardsPassItOn == ASSUME ShardsAssumption PROVE Spec => []ShardStaleIsPending
  <1>. DEFINE Part == part = "shards" => SP!ShardInv
  <1>1. SP!Wiring
    BY DEF SP!Wiring, ShardsAssumption, ShardHash, ShardKeyOf
  <1>2. Init => Part
    BY <1>1, SameSteps, SP!InvInit DEF Init
  <1>3. Part /\ [Next]_vars => Part'
    <2>1. ASSUME Part, Next, part' = "shards" PROVE SP!ShardInv'
      <3>1. part = "shards" /\ SP!Next
        BY <2>1, SameSteps DEF Next, AroundStores
      <3>. QED
        BY <2>1, <3>1, SP!InvNext
    <2>2. ASSUME Part, UNCHANGED vars, part' = "shards" PROVE SP!ShardInv'
      <3>1. part = "shards" /\ UNCHANGED SP!vars
        BY <2>2 DEF vars, SP!vars, SP!manager, shardVars
      <3>. QED
        BY <2>2, <3>1, SP!InvNext
    <2>. QED
      BY <2>1, <2>2
  <1>4. SP!ShardInv => SP!ShardStaleIsPending
    BY SP!InvPending
  <1>5. SP!ShardStaleIsPending <=> Shards!ShardStaleIsPending
    BY DEF SP!ShardStaleIsPending, Shards!ShardStaleIsPending, SP!Stale, Shards!Stale,
       SP!Coming, Shards!Coming
  <1>6. Part => ShardStaleIsPending
    BY <1>4, <1>5 DEF ShardStaleIsPending
  <1>. HIDE DEF Part
  <1>. QED
    BY <1>2, <1>3, <1>6, PTL DEF Spec
-----------------------------------------------------------------------------
(***************************************************************************)
(* UpperBound: the answers on their way to the cache are those given last, *)
(* in their order.                                                         *)
(***************************************************************************)
Line == Question \X Nat

Asking == [call : Question, answered : BOOLEAN, value : Nat]

SavingTypes ==
    /\ expires \in BOOLEAN
    /\ version \in Nat
    /\ asking \in [Asker -> Asking \cup {Missing}]
    /\ answers \in Seq(Line)
    /\ SavingQueue \in Seq(Line)
    /\ pipe \in Seq(Line)

\* The answers that have left the queue.
Left == Len(answers) - Len(SavingQueue)

\* The answers to c among the first n of them.
For(c, n) == {i \in 1..n : answers[i][1] = c}

\* The line of c, when the first n answers have been executed.
LineSaved(c, n) ==
    \/ cache[c] = Missing /\ (expires \/ For(c, n) = {})
    \/ \E i \in For(c, n) : cache[c] = answers[i][2] /\ \A j \in For(c, n) : j <= i

\* counter is the length of the pipeline; the pipeline is what left the queue
\* last, the queue what was answered after it.
SavingInv ==
    /\ SavingTypes
    /\ Left \in Nat
    /\ counter = Left % SavingBatchSize
    /\ counter \in Nat /\ counter <= Left
    /\ \A i \in 1..Len(SavingQueue) : SavingQueue[i] = answers[Left + i]
    /\ Len(pipe) = counter
    /\ \A i \in 1..counter : pipe[i] = answers[(Left - counter) + i]
    /\ cache \in [Question -> Nat \cup {Missing}]
    /\ \A c \in Question : LineSaved(c, Left - counter)

LEMMA NextRemainder ==
    ASSUME NEW B \in Nat \ {0}, NEW n \in Nat
    PROVE  /\ n % B \in Nat /\ n % B < B /\ n % B <= n
           /\ (n + 1) % B = IF (n % B) + 1 = B THEN 0 ELSE (n % B) + 1
  <1>1. n % B \in 0..(B - 1)
    OBVIOUS
  <1>2. n = B * (n \div B) + (n % B)
    OBVIOUS
  <1>3. n \div B \in Nat
    OBVIOUS
  <1>4. ASSUME NEW q \in Nat, NEW r \in 0..(B - 1) PROVE (B * q + r) % B = r
    OBVIOUS
  <1>5. PICK q \in Nat : q = n \div B
    BY <1>3
  <1>6. PICK r \in 0..(B - 1) : r = n % B
    BY <1>1
  <1>7. n = B * q + r
    BY <1>2, <1>5, <1>6
  <1>8. r + 1 = B => (n + 1) % B = 0
    <2>. SUFFICES ASSUME r + 1 = B PROVE (n + 1) % B = 0
      OBVIOUS
    <2>1. n + 1 = B * (q + 1) + 0
      BY <1>7
    <2>2. (B * (q + 1) + 0) % B = 0
      BY <1>4
    <2>. QED
      BY <2>1, <2>2
  <1>9. r + 1 # B => (n + 1) % B = r + 1
    <2>. SUFFICES ASSUME r + 1 # B PROVE (n + 1) % B = r + 1
      OBVIOUS
    <2>1. n + 1 = B * q + (r + 1) /\ r + 1 \in 0..(B - 1)
      BY <1>7
    <2>2. (B * q + (r + 1)) % B = r + 1
      BY <1>4, <2>1
    <2>. QED
      BY <2>1, <2>2
  <1>10. r <= n
    <2>1. B * q \in Nat
      OBVIOUS
    <2>. QED
      BY <1>7, <2>1
  <1>. QED
    BY <1>6, <1>8, <1>9, <1>10

\* A set of places has a last one.
LEMMA LastPlace ==
    ASSUME NEW n \in Nat, NEW S \in SUBSET (1..n), S # {}
    PROVE  \E i \in S : \A j \in S : j <= i
  <1>. DEFINE R == OpToRel(<, Nat)
              T == {n - i : i \in S}
  <1>1. T \in SUBSET Nat /\ T # {}
    <2>1. PICK i \in S : TRUE
      OBVIOUS
    <2>2. n - i \in T
      OBVIOUS
    <2>3. \A j \in S : n - j \in Nat
      OBVIOUS
    <2>. QED
      BY <2>2, <2>3
  <1>2. R = {p \in Nat \X Nat : p[1] < p[2]}
    BY DEF OpToRel
  <1>3. IsWellFoundedOn(R, Nat)
    BY NatLessThanWellFounded
  <1>. HIDE DEF R, T
  <1>4. PICK x \in T : \A y \in T : <<y, x>> \notin R
    BY <1>1, <1>3, WFMin
  <1>5. ASSUME NEW y \in T PROVE x <= y
    <2>1. <<y, x>> \notin R /\ y \in Nat /\ x \in Nat
      BY <1>1, <1>4
    <2>. QED
      BY <1>2, <2>1
  <1>6. PICK i \in S : x = n - i
    BY DEF T
  <1>7. ASSUME NEW j \in S PROVE j <= i
    <2>1. n - j \in T
      BY DEF T
    <2>2. n - i <= n - j
      BY <1>5, <1>6, <2>1
    <2>. QED
      BY <2>2
  <1>. QED
    BY <1>7

LEMMA SavingInit == SavingBatchSize \in Nat \ {0} /\ UpperBound!Init => SavingInv
  <1>. SUFFICES ASSUME SavingBatchSize \in Nat \ {0}, UpperBound!Init PROVE SavingInv
    OBVIOUS
  <1>1. Left = 0
    BY DEF UpperBound!Init, Left
  <1>2. 0 % SavingBatchSize = 0
    OBVIOUS
  <1>3. \A c \in Question : For(c, 0) = {}
    BY DEF For
  <1>4. SavingTypes
    BY DEF UpperBound!Init, SavingTypes
  <1>. QED
    BY <1>1, <1>2, <1>3, <1>4 DEF UpperBound!Init, SavingInv, LineSaved

\* The actions that put nothing in the queue and take nothing from it.
LEMMA SavingBeside ==
    ASSUME SavingInv, \/ UpperBound!Change
                      \/ \E x \in Asker, c \in Question : UpperBound!Invoke(x, c)
                      \/ \E x \in Asker : UpperBound!Answer(x)
                      \/ \E c \in Question : UpperBound!Expire(c)
                      \/ UNCHANGED UpperBound!vars
    PROVE  SavingInv'
  <1>1. UNCHANGED <<expires, SavingQueue, pipe, counter, answers>>
    BY DEF UpperBound!Change, UpperBound!Invoke, UpperBound!Answer, UpperBound!Expire,
       UpperBound!vars
  <1>2. Left' = Left /\ \A c, n : For(c, n)' = For(c, n)
    BY <1>1 DEF Left, For
  <1>3. \A c \in Question : cache'[c] = cache[c] \/ (expires /\ cache'[c] = Missing)
    BY DEF UpperBound!Change, UpperBound!Invoke, UpperBound!Answer, UpperBound!Expire,
       UpperBound!vars, SavingInv
  <1>4. cache' \in [Question -> Nat \cup {Missing}]
    BY DEF UpperBound!Change, UpperBound!Invoke, UpperBound!Answer, UpperBound!Expire,
       UpperBound!vars, SavingInv
  <1>5. version' \in {version, version + 1} /\ version \in Nat
    BY DEF UpperBound!Change, UpperBound!Invoke, UpperBound!Answer, UpperBound!Expire,
       UpperBound!vars, SavingInv, SavingTypes
  <1>6. asking' \in [Asker -> Asking \cup {Missing}]
    <2>1. ASSUME NEW x \in Asker, NEW c \in Question, UpperBound!Invoke(x, c)
          PROVE  asking' \in [Asker -> Asking \cup {Missing}]
      BY <2>1 DEF UpperBound!Invoke, SavingInv, SavingTypes, Asking
    <2>2. ASSUME NEW x \in Asker, UpperBound!Answer(x)
          PROVE  asking' \in [Asker -> Asking \cup {Missing}]
      <3>1. PICK old \in Asking : old = asking[x]
        BY <2>2 DEF UpperBound!Answer, SavingInv, SavingTypes
      <3>2. [old EXCEPT !.answered = TRUE, !.value = version] \in Asking
        BY DEF SavingInv, SavingTypes, Asking
      <3>3. \/ asking' = [asking EXCEPT ![x] = [old EXCEPT !.answered = TRUE, !.value = version]]
            \/ asking' = [asking EXCEPT ![x] = Missing]
        BY <2>2, <3>1 DEF UpperBound!Answer
      <3>. QED
        BY <3>2, <3>3 DEF SavingInv, SavingTypes
    <2>3. UNCHANGED asking => asking' \in [Asker -> Asking \cup {Missing}]
      BY DEF SavingInv, SavingTypes
    <2>. QED
      BY <2>1, <2>2, <2>3 DEF UpperBound!Change, UpperBound!Expire, UpperBound!vars
  <1>7. ASSUME NEW c \in Question PROVE LineSaved(c, Left - counter)'
    <2>1. LineSaved(c, Left - counter)
      BY DEF SavingInv
    <2>. QED
      BY <1>1, <1>2, <1>3, <2>1 DEF LineSaved
  <1>8. SavingTypes'
    BY <1>1, <1>5, <1>6 DEF SavingInv, SavingTypes
  <1>. QED
    BY <1>1, <1>2, <1>4, <1>7, <1>8 DEF SavingInv

\* An answer is put in the queue.
LEMMA SavingQueued ==
    ASSUME SavingInv, NEW x \in Asker, UpperBound!ParseJsonAndSaveToCache(x)
    PROVE  SavingInv'
  <1>1. PICK line \in Line : /\ SavingQueue' = Append(SavingQueue, line)
                             /\ answers' = Append(answers, line)
    BY DEF UpperBound!ParseJsonAndSaveToCache, SavingInv, SavingTypes, Line, Asking
  <1>2. UNCHANGED <<expires, version, pipe, counter, cache>>
    BY DEF UpperBound!ParseJsonAndSaveToCache
  <1>3. /\ answers \in Seq(Line) /\ SavingQueue \in Seq(Line)
        /\ Left \in Nat /\ counter \in Nat /\ counter <= Left
    BY DEF SavingInv, SavingTypes
  <1>4. /\ Len(answers) \in Nat /\ Len(SavingQueue) \in Nat
        /\ Len(answers') = Len(answers) + 1 /\ Len(SavingQueue') = Len(SavingQueue) + 1
        /\ \A i \in 1..Len(answers) : answers'[i] = answers[i]
        /\ \A i \in 1..Len(SavingQueue) : SavingQueue'[i] = SavingQueue[i]
        /\ answers'[Len(answers) + 1] = line /\ SavingQueue'[Len(SavingQueue) + 1] = line
    BY <1>1, <1>3, AppendProperties
  <1>5. Left' = Left /\ Left <= Len(answers)
    BY <1>3, <1>4 DEF Left
  <1>6. SavingTypes'
    <2>1. answers' \in Seq(Line) /\ SavingQueue' \in Seq(Line)
      BY <1>1, <1>3, AppendProperties
    <2>2. asking' = [asking EXCEPT ![x] = Missing]
      BY DEF UpperBound!ParseJsonAndSaveToCache
    <2>3. asking' \in [Asker -> Asking \cup {Missing}]
      BY <2>2 DEF SavingInv, SavingTypes
    <2>. QED
      BY <1>2, <2>1, <2>3 DEF SavingInv, SavingTypes
  <1>7. ASSUME NEW i \in 1..Len(SavingQueue') PROVE SavingQueue'[i] = answers'[Left + i]
    <2>1. CASE i = Len(SavingQueue) + 1
      <3>1. Left + i = Len(answers) + 1
        BY <1>4, <2>1 DEF Left
      <3>. QED
        BY <1>4, <2>1, <3>1
    <2>2. CASE i \in 1..Len(SavingQueue)
      <3>1. Left + i \in 1..Len(answers)
        BY <1>3, <1>4, <2>2 DEF Left
      <3>2. SavingQueue[i] = answers[Left + i]
        BY <2>2 DEF SavingInv
      <3>. QED
        BY <1>4, <2>2, <3>1, <3>2
    <2>. QED
      BY <1>4, <2>1, <2>2
  <1>8. ASSUME NEW i \in 1..counter PROVE pipe'[i] = answers'[(Left - counter) + i]
    <2>1. (Left - counter) + i \in 1..Len(answers)
      BY <1>3, <1>4, <1>5
    <2>. QED
      BY <1>2, <1>4, <2>1 DEF SavingInv
  <1>9. PICK n \in Nat : n = Left - counter /\ n <= Len(answers)
    BY <1>3, <1>4, <1>5
  <1>10. \A c \in Question : /\ For(c, n)' = For(c, n)
                            /\ \A i \in For(c, n) : answers'[i] = answers[i]
    BY SMTT(30), <1>4, <1>9 DEF For
  <1>11. ASSUME NEW c \in Question PROVE LineSaved(c, n)'
    <2>1. LineSaved(c, n)
      BY <1>9 DEF SavingInv
    <2>. QED
      BY <1>2, <1>10, <2>1 DEF LineSaved
  <1>12. \A c \in Question : LineSaved(c, Left - counter)'
    BY <1>2, <1>5, <1>9, <1>11 DEF LineSaved
  <1>. QED
    BY <1>2, <1>5, <1>6, <1>7, <1>8, <1>12 DEF SavingInv

\* What a pipeline leaves of a line, executed after n answers.
LEMMA ExecutedIsLast ==
    ASSUME SavingInv, NEW p \in Seq(Line), NEW n \in Nat,
           \A i \in 1..Len(p) : p[i] = answers[n + i],
           NEW c \in Question, LineSaved(c, n)
    PROVE  LET v == UpperBound!Executed(p, c)
               for == For(c, n + Len(p))
           IN  \/ v = Missing /\ (expires \/ for = {})
               \/ \E i \in for : v = answers[i][2] /\ \A j \in for : j <= i
  <1>. DEFINE sets == {i \in 1..Len(p) : p[i][1] = c}
  <1>1. Len(p) \in Nat
    OBVIOUS
  <1>2. \A i \in 1..Len(p) : i \in sets <=> n + i \in For(c, n + Len(p))
    BY <1>1 DEF For
  <1>3. \A j \in For(c, n + Len(p)) :
           j \in Nat /\ (j \in For(c, n) \/ (j - n \in sets /\ n + (j - n) = j))
    <2>1. ASSUME NEW j \in For(c, n + Len(p)), j \notin For(c, n)
          PROVE  j - n \in sets /\ n + (j - n) = j
      <3>1. j \in 1..(n + Len(p)) /\ ~(j <= n)
        BY <1>1, <2>1 DEF For
      <3>2. j - n \in 1..Len(p) /\ n + (j - n) = j
        BY <1>1, <3>1
      <3>. QED
        BY <1>2, <2>1, <3>2
    <2>. QED
      BY <1>1, <2>1 DEF For
  <1>4. CASE sets = {}
    <2>1. UpperBound!Executed(p, c) = cache[c]
      BY <1>4 DEF UpperBound!Executed
    <2>2. For(c, n) \subseteq For(c, n + Len(p))
      BY <1>1 DEF For
    <2>3. For(c, n + Len(p)) = For(c, n)
      BY <1>3, <1>4, <2>2
    <2>. QED
      BY <2>1, <2>3 DEF LineSaved
  <1>5. CASE sets # {}
    <2>1. PICK m \in sets : \A j \in sets : j <= m
      BY <1>1, <1>5, LastPlace
    <2>2. PICK l : l = CHOOSE i \in sets : \A j \in sets : j <= i
      OBVIOUS
    <2>3. l \in sets /\ \A j \in sets : j <= l
      BY <2>1, <2>2
    <2>4. UpperBound!Executed(p, c) = p[l][2]
      BY <1>5, <2>2 DEF UpperBound!Executed
    <2>5. n + l \in For(c, n + Len(p)) /\ p[l] = answers[n + l]
      BY <1>2, <2>3
    <2>6. ASSUME NEW j \in For(c, n + Len(p)) PROVE j <= n + l
      <3>1. CASE j \in For(c, n)
        BY <2>3, <3>1 DEF For
      <3>2. CASE j - n \in sets
        BY <1>3, <2>3, <3>2
      <3>. QED
        BY <1>3, <3>1, <3>2
    <2>. QED
      BY <2>4, <2>5, <2>6
  <1>. QED
    BY <1>4, <1>5

\* The saver takes an answer.
LEMMA SavingTaken ==
    ASSUME SavingBatchSize \in Nat \ {0}, SavingInv, UpperBound!OffloadSave
    PROVE  SavingInv'
  <1>1. /\ UNCHANGED <<expires, version, asking, answers>>
        /\ SavingQueue # <<>> /\ SavingQueue' = Tail(SavingQueue)
    BY DEF UpperBound!OffloadSave
  <1>2. PICK q \in Seq(Line) : q = SavingQueue /\ q # <<>>
    BY <1>1 DEF SavingInv, SavingTypes
  <1>3. /\ Tail(q) \in Seq(Line) /\ Len(q) \in Nat \ {0} /\ Len(Tail(q)) = Len(q) - 1
        /\ Head(q) = q[1] /\ q[1] \in Line
        /\ \A i \in 1..Len(Tail(q)) : Tail(q)[i] = q[i + 1]
    BY <1>2, HeadTailProperties, EmptySeq
  <1>4. Left' = Left + 1 /\ Left \in Nat /\ Len(answers) \in Nat /\ Left + Len(q) = Len(answers)
    BY <1>1, <1>2, <1>3 DEF Left, SavingInv, SavingTypes
  <1>5. PICK p \in Seq(Line) : p = Append(pipe, Head(q))
    BY <1>3, AppendProperties DEF SavingInv, SavingTypes
  <1>6. PICK n \in Nat : n = Left - counter
    BY DEF SavingInv
  <1>7. /\ counter \in Nat /\ Len(pipe) = counter /\ pipe \in Seq(Line)
        /\ \A i \in 1..counter : pipe[i] = answers[n + i]
        /\ \A i \in 1..Len(q) : q[i] = answers[Left + i]
        /\ counter = Left % SavingBatchSize
    BY <1>2, <1>6 DEF SavingInv, SavingTypes
  <1>8. /\ Len(p) = counter + 1 /\ p[counter + 1] = q[1]
        /\ \A i \in 1..counter : p[i] = pipe[i]
    BY <1>3, <1>5, <1>7, AppendProperties
  <1>9. \A i \in 1..Len(p) : p[i] = answers[n + i]
    <2>1. p[counter + 1] = answers[n + (counter + 1)]
      <3>1. Left + 1 = n + (counter + 1)
        BY <1>4, <1>6, <1>7
      <3>. QED
        BY <1>3, <1>7, <1>8, <3>1
    <2>. QED
      BY SMTT(30), <1>7, <1>8, <2>1
  <1>10. \A i \in 1..Len(SavingQueue') : SavingQueue'[i] = answers'[Left' + i]
    <2>1. ASSUME NEW i \in 1..Len(Tail(q)) PROVE Tail(q)[i] = answers[(Left + 1) + i]
      <3>1. i + 1 \in 1..Len(q) /\ Left + (i + 1) = (Left + 1) + i
        BY <1>3, <1>4
      <3>. QED
        BY <1>3, <1>7, <3>1
    <2>. QED
      BY <1>1, <1>2, <1>4, <2>1
  <1>11. \A c \in Question : LineSaved(c, n)
    BY <1>6 DEF SavingInv
  <1>12. Left' % SavingBatchSize =
            IF counter + 1 = SavingBatchSize THEN 0 ELSE counter + 1
    <2>1. PICK l \in Nat : l = Left
      BY <1>4
    <2>2. (l + 1) % SavingBatchSize = IF (l % SavingBatchSize) + 1 = SavingBatchSize
                                      THEN 0 ELSE (l % SavingBatchSize) + 1
      BY NextRemainder
    <2>. QED
      BY <1>4, <1>7, <2>1, <2>2
  <1>13. CASE counter + 1 = SavingBatchSize
    <2>1. /\ cache' = [c \in Question |-> UpperBound!Executed(p, c)]
          /\ pipe' = <<>> /\ counter' = 0
      BY <1>2, <1>5, <1>13 DEF UpperBound!OffloadSave
    <2>2. PICK l \in Nat : l = Left + 1 /\ n + Len(p) = l /\ l <= Len(answers)
      <3>1. Len(q) \in Nat /\ 1 <= Len(q)
        BY <1>3
      <3>2. Left + 1 \in Nat /\ Left + 1 <= Len(answers)
        BY <1>4, <3>1
      <3>3. n + (counter + 1) = Left + 1
        BY <1>4, <1>6, <1>7
      <3>. QED
        BY <1>8, <3>2, <3>3
    <2>3. \A c \in Question : For(c, l)' = For(c, l)
      BY <1>1 DEF For
    <2>4. ASSUME NEW c \in Question
          PROVE  LineSaved(c, l)' /\ cache'[c] \in Nat \cup {Missing}
      <3>1. PICK v : v = UpperBound!Executed(p, c)
        OBVIOUS
      <3>2. \/ v = Missing /\ (expires \/ For(c, l) = {})
            \/ \E i \in For(c, l) : v = answers[i][2] /\ \A j \in For(c, l) : j <= i
        BY <1>9, <1>11, <2>2, <3>1, ExecutedIsLast
      <3>3. cache'[c] = v
        BY <2>1, <3>1
      <3>4. \A i \in For(c, l) : answers[i] \in Line
        BY SMTT(30), <2>2 DEF For, SavingInv, SavingTypes
      <3>5. \A i \in For(c, l) : answers[i][2] \in Nat
        BY <3>4 DEF Line
      <3>. QED
        BY <1>1, <2>3, <3>2, <3>3, <3>5 DEF LineSaved
    <2>5. ASSUME NEW c \in Question PROVE LineSaved(c, Left - counter)'
      <3>1. (Left - counter)' = l
        BY <1>4, <2>1, <2>2
      <3>. QED
        BY <2>4, <3>1 DEF LineSaved
    <2>6. cache' \in [Question -> Nat \cup {Missing}]
      BY <2>1, <2>4
    <2>7. SavingTypes'
      BY <1>1, <1>2, <1>3, <2>1 DEF SavingInv, SavingTypes
    <2>. QED
      BY <1>4, <1>10, <1>12, <1>13, <2>1, <2>5, <2>6, <2>7 DEF SavingInv
  <1>14. CASE counter + 1 # SavingBatchSize
    <2>1. pipe' = p /\ counter' = counter + 1 /\ UNCHANGED cache
      BY <1>2, <1>5, <1>14 DEF UpperBound!OffloadSave
    <2>2. Left' - counter' = n
      BY <1>4, <1>6, <1>7, <2>1
    <2>3. \A c \in Question : LineSaved(c, Left - counter)'
      <3>1. \A c \in Question : For(c, n)' = For(c, n)
        BY <1>1 DEF For
      <3>2. \A c \in Question : LineSaved(c, n)'
        BY <1>1, <1>11, <2>1, <3>1 DEF LineSaved
      <3>. QED
        BY <2>2, <3>2 DEF LineSaved
    <2>4. SavingTypes'
      BY <1>1, <1>2, <1>3, <2>1 DEF SavingInv, SavingTypes
    <2>5. \A i \in 1..counter' : pipe'[i] = answers'[(Left' - counter') + i]
      BY <1>1, <1>8, <1>9, <2>1, <2>2
    <2>6. Left' \in Nat /\ counter' \in Nat /\ counter' <= Left' /\ Len(pipe') = counter'
      BY <1>4, <1>6, <1>7, <1>8, <2>1
    <2>. QED
      BY <1>10, <1>12, <1>14, <2>1, <2>3, <2>4, <2>5, <2>6 DEF SavingInv
  <1>. QED
    BY <1>13, <1>14

(***************************************************************************)
(* OffloadSave: whatever the size of a batch and however the callers and   *)
(* the saver take turns, a line holds the last answer of the whole batches *)
(* that have left the queue.                                               *)
(***************************************************************************)
THEOREM SavedInBatches ==
    ASSUME SavingBatchSize \in Nat \ {0} PROVE Spec => []BatchesSaved
  <1>. DEFINE Part == part = "upperbound" => SavingInv
  <1>1. Init => Part
    BY SavingInit DEF Init
  <1>2. Part /\ [Next]_vars => Part'
    <2>1. ASSUME Part, Next, part' = "upperbound" PROVE SavingInv'
      <3>1. part = "upperbound" /\ UpperBound!Next
        BY <2>1 DEF Next, AroundStores
      <3>. QED
        BY <2>1, <3>1, SavingBeside, SavingQueued, SavingTaken DEF UpperBound!Next
    <2>2. ASSUME Part, UNCHANGED vars, part' = "upperbound" PROVE SavingInv'
      <3>1. part = "upperbound" /\ UNCHANGED UpperBound!vars
        BY <2>2 DEF vars, UpperBound!vars, savingVars
      <3>. QED
        BY <2>2, <3>1, SavingBeside
    <2>. QED
      BY <2>1, <2>2
  <1>3. SavingInv => UpperBound!BatchesSaved
    BY DEF SavingInv, LineSaved, Left, For, UpperBound!BatchesSaved
  <1>4. Part => BatchesSaved
    BY <1>3 DEF BatchesSaved
  <1>. HIDE DEF Part
  <1>. QED
    BY <1>1, <1>2, <1>4, PTL DEF Spec

-----------------------------------------------------------------------------
(***************************************************************************)
(* Hotel: records of reservations and what clients were told of them.      *)
(***************************************************************************)
StoreRun == [at : {"getHotelIds", "storeHotelLocation", "storeRate", "addHotelAvailability",
                   "storeProfile"},
             hotel : HotelId, capacity : Capacities, ids : Seq(HotelId)]

SearchRun == [at : {"nearby", "getRates", "checkAvailability", "getProfiles"},
              todo : Seq(HotelId), ids : Seq(HotelId),
              want : [id : Nat, inDate : Day, outDate : Day, rooms : Nat]]

BookRun == [at : {"login", "getAvailability", "makeReservation"},
            hotel : HotelId, want : Hotel!Reservation, got : Hotel!Availability \cup {Missing}]

HotelRun == {Hotel!Idle} \cup StoreRun \cup SearchRun \cup BookRun

Told == [reservation : Hotel!Reservation, overlapped : BOOLEAN]

HotelDb == [location : Seq(HotelId), rate : [HotelId -> {"rate", Missing}],
            availability : [HotelId -> Hotel!Availability \cup {Missing}],
            profile : [HotelId -> {"profile", Missing}], user : {"registered", Missing}]

HotelLog == [requests : Nat, stored : SUBSET HotelId, confirmed : [HotelId -> Seq(Told)]]

HotelTypes ==
    /\ db \in HotelDb
    /\ run \in [Client -> HotelRun]
    /\ log \in HotelLog

-----------------------------------------------------------------------------
\* The reservations of a fit its capacity by the count of checkAvailability.
Fits(a) ==
    LET res == a.reservations
    IN  /\ Len(res) <= MaxKept
        /\ \A i \in DOMAIN res :
              Hotel!Cardinality({j \in 1..(i - 1) : Hotel!datesIntersect(res[i], res[j])})
                 + res[i].rooms <= a.capacity

\* How many reservations go when one is added.
Dropped(list) == IF Len(list) >= MaxKept THEN 1 ELSE 0

LEMMA SameCardinality == \A S : Hotel!Cardinality(S) = Cardinality(S)
  BY DEF Hotel!Cardinality, Cardinality

LEMMA ShiftedCount ==
    ASSUME NEW m \in Nat, NEW n \in Nat, NEW d \in Nat, NEW A \in SUBSET (1..m),
           NEW B \in SUBSET (1..n), \A x \in A : x + d \in B
    PROVE  /\ Hotel!Cardinality(A) \in Nat /\ Hotel!Cardinality(B) \in Nat
           /\ Hotel!Cardinality(A) <= Hotel!Cardinality(B)
  <1>. DEFINE f == [x \in A |-> x + d]
  <1>1. IsFiniteSet(A) /\ IsFiniteSet(B)
    <2>1. IsFiniteSet(1..m) /\ IsFiniteSet(1..n)
      BY FS_Interval
    <2>. QED
      BY <2>1, FS_Subset, Zenon
  <1>2. f \in Injection(A, B)
    <2>1. f \in [A -> B]
      OBVIOUS
    <2>2. \A x \in A : x \in Nat
      OBVIOUS
    <2>3. \A x, y \in A : f[x] = f[y] => x = y
      BY <2>2
    <2>. HIDE DEF f
    <2>. QED
      BY <2>1, <2>3 DEF Injection, IsInjective
  <1>3. Cardinality(A) \in Nat /\ Cardinality(B) \in Nat /\ Cardinality(A) <= Cardinality(B)
    BY <1>1, <1>2, FS_Injection, FS_CardinalityType
  <1>. QED
    BY <1>3, SameCardinality

LEMMA BoundedFacts ==
    ASSUME NEW S, NEW list \in Seq(S), NEW x \in S
    PROVE  /\ Hotel!Bounded(list, x) \in Seq(S)
           /\ Len(Hotel!Bounded(list, x)) = (Len(list) - Dropped(list)) + 1
           /\ Len(list) - Dropped(list) \in Nat /\ Dropped(list) \in {0, 1}
           /\ Len(list) <= MaxKept => Len(list) - Dropped(list) < MaxKept
           /\ \A k \in 1..(Len(list) - Dropped(list)) :
                 Hotel!Bounded(list, x)[k] = list[k + Dropped(list)]
           /\ Hotel!Bounded(list, x)[(Len(list) - Dropped(list)) + 1] = x
  <1>. DEFINE kept == IF Len(list) >= MaxKept THEN Tail(list) ELSE list
              d == Dropped(list)
  <1>. USE DEF Dropped
  <1>1. /\ kept \in Seq(S) /\ Len(kept) = Len(list) - d
        /\ \A k \in 1..Len(kept) : kept[k] = list[k + d]
    <2>1. CASE Len(list) >= MaxKept
      <3>1. list # <<>>
        BY <2>1, AmountsAssumption
      <3>. QED
        BY <2>1, <3>1, HeadTailProperties, Zenon
    <2>2. CASE ~(Len(list) >= MaxKept)
      BY <2>2
    <2>. QED
      BY <2>1, <2>2
  <1>2. Hotel!Bounded(list, x) = Append(kept, x)
    BY DEF Hotel!Bounded
  <1>. HIDE DEF kept
  <1>3. /\ Append(kept, x) \in Seq(S) /\ Len(Append(kept, x)) = Len(kept) + 1
        /\ \A k \in 1..Len(kept) : Append(kept, x)[k] = kept[k]
        /\ Append(kept, x)[Len(kept) + 1] = x
    BY <1>1
  <1>4. /\ Len(list) - d \in Nat /\ d \in {0, 1}
        /\ Len(list) <= MaxKept => Len(list) - d < MaxKept
    BY <1>1, AmountsAssumption
  <1>. QED
    BY <1>1, <1>2, <1>3, <1>4

LEMMA AvailabilityFacts ==
    ASSUME NEW a \in Hotel!Availability
    PROVE  /\ a.capacity \in Nat /\ a.reservations \in Seq(Hotel!Reservation)
           /\ DOMAIN a.reservations = 1..Len(a.reservations)
           /\ \A i \in DOMAIN a.reservations : a.reservations[i].rooms \in Nat
  <1>1. a.capacity \in Nat /\ a.reservations \in Seq(Hotel!Reservation)
    BY AmountsAssumption DEF Hotel!Availability
  <1>2. \A i \in 1..Len(a.reservations) : a.reservations[i] \in Hotel!Reservation
    BY <1>1, ElementOfSeq
  <1>3. \A r \in Hotel!Reservation : r.rooms \in Nat
    BY AmountsAssumption DEF Hotel!Reservation
  <1>4. DOMAIN a.reservations = 1..Len(a.reservations)
    BY <1>1
  <1>. QED
    BY <1>1, <1>2, <1>3, <1>4

LEMMA BookFits ==
    ASSUME NEW a \in Hotel!Availability, NEW want \in Hotel!Reservation, Fits(a),
           Hotel!checkAvailability(a, want)
    PROVE  Hotel!Book(a, want) \in Hotel!Availability /\ Fits(Hotel!Book(a, want))
  <1>. DEFINE res == a.reservations
              new == Hotel!Bounded(res, want)
              d == Dropped(res)
              b == Hotel!Book(a, want)
  <1>1. /\ a.capacity \in Nat /\ res \in Seq(Hotel!Reservation)
        /\ DOMAIN res = 1..Len(res) /\ Len(res) \in Nat
        /\ \A i \in DOMAIN res : res[i].rooms \in Nat
    BY AvailabilityFacts
  <1>2. /\ new \in Seq(Hotel!Reservation) /\ Len(new) = (Len(res) - d) + 1
        /\ Len(res) - d \in Nat /\ d \in {0, 1} /\ (Len(res) <= MaxKept => Len(res) - d < MaxKept)
        /\ \A k \in 1..(Len(res) - d) : new[k] = res[k + d]
        /\ new[(Len(res) - d) + 1] = want
    <2>1. res \in Seq(Hotel!Reservation)
      BY <1>1
    <2>. HIDE DEF res
    <2>. QED
      BY <2>1, BoundedFacts
  <1>3. b = [a EXCEPT !.reservations = new]
    BY DEF Hotel!Book
  <1>. HIDE DEF new
  <1>4. b \in Hotel!Availability /\ b.reservations = new /\ b.capacity = a.capacity
    BY <1>2, <1>3 DEF Hotel!Availability
  <1>. HIDE DEF b
  <1>5. Len(res) <= MaxKept /\ MaxKept \in Nat /\ want.rooms \in Nat
    BY AmountsAssumption DEF Fits, Hotel!Reservation
  <1>6. Len(new) <= MaxKept
    BY <1>1, <1>2, <1>5
  <1>. DEFINE N == Len(res) - d
  <1>7. ASSUME NEW i \in 1..Len(new)
        PROVE  Hotel!Cardinality({j \in 1..(i - 1) : Hotel!datesIntersect(new[i], new[j])})
                  + new[i].rooms <= a.capacity
    <2>. DEFINE A == {j \in 1..(i - 1) : Hotel!datesIntersect(new[i], new[j])}
    <2>1. CASE i <= N
      <3>1. i \in 1..N /\ i + d \in 1..Len(res) /\ i \in Nat
        BY <1>1, <1>2, <2>1
      <3>2. new[i] = res[i + d]
        BY <1>2, <3>1
      <3>. DEFINE B == {k \in 1..((i + d) - 1) : Hotel!datesIntersect(res[i + d], res[k])}
      <3>3. ASSUME NEW j \in A PROVE j + d \in B
        <4>1. j \in 1..N /\ j + d \in 1..((i + d) - 1)
          BY <1>2, <1>5, <2>1, <3>1
        <4>2. new[j] = res[j + d]
          BY <1>2, <4>1
        <4>. QED
          BY <3>2, <4>1, <4>2
      <3>4. i - 1 \in Nat /\ (i + d) - 1 \in Nat /\ d \in Nat
        <4>1. d \in {0, 1} /\ i \in Nat /\ i >= 1
          BY <1>2, <3>1
        <4>. HIDE DEF d
        <4>. QED
          BY <4>1
      <3>5. A \in SUBSET (1..(i - 1)) /\ B \in SUBSET (1..((i + d) - 1))
        OBVIOUS
      <3>6. Hotel!Cardinality(B) + res[i + d].rooms <= a.capacity
        BY <1>1, <3>1 DEF Fits
      <3>. HIDE DEF A, B, d
      <3>7. /\ Hotel!Cardinality(A) \in Nat /\ Hotel!Cardinality(B) \in Nat
            /\ Hotel!Cardinality(A) <= Hotel!Cardinality(B)
        BY <3>3, <3>4, <3>5, ShiftedCount
      <3>8. res[i + d].rooms \in Nat
        BY <1>1, <3>1
      <3>. QED
        BY <1>1, <3>2, <3>6, <3>7, <3>8 DEF A
    <2>2. CASE i > N
      <3>1. i = N + 1 /\ new[i] = want /\ i \in Nat
        BY <1>1, <1>2, <2>2
      <3>. DEFINE B == {k \in DOMAIN res : Hotel!datesIntersect(want, res[k])}
      <3>2. ASSUME NEW j \in A PROVE j + d \in B
        <4>1. j \in 1..N /\ j + d \in DOMAIN res
          BY <1>1, <1>2, <1>5, <3>1
        <4>2. new[j] = res[j + d]
          BY <1>2, <4>1
        <4>. QED
          BY <3>1, <4>1, <4>2
      <3>3. i - 1 \in Nat /\ d \in Nat
        BY <1>2, <1>5, <3>1
      <3>4. A \in SUBSET (1..(i - 1)) /\ B \in SUBSET (1..Len(res))
        BY <1>1
      <3>5. Hotel!Cardinality(B) + want.rooms <= a.capacity
        BY DEF Hotel!checkAvailability
      <3>. HIDE DEF A, B, d
      <3>6. /\ Hotel!Cardinality(A) \in Nat /\ Hotel!Cardinality(B) \in Nat
            /\ Hotel!Cardinality(A) <= Hotel!Cardinality(B)
        BY <1>1, <3>2, <3>3, <3>4, ShiftedCount
      <3>. QED
        BY <1>1, <1>5, <3>1, <3>5, <3>6 DEF A
    <2>3. N \in Nat /\ i \in Int
      BY <1>2
    <2>. HIDE DEF N
    <2>4. i <= N \/ i > N
      BY <2>3
    <2>. QED
      BY <2>1, <2>2, <2>4
  <1>8. DOMAIN b.reservations = 1..Len(new)
    BY <1>2, <1>4
  <1>9. Fits(b)
    BY <1>4, <1>6, <1>7, <1>8 DEF Fits
  <1>. QED
    BY <1>4, <1>9 DEF b

-----------------------------------------------------------------------------
\* The youngest MaxKept reservations confirmed of h are in res, no further
\* from its end than they are from the end of what was confirmed.
OnRecord(res, h) ==
    \A i \in DOMAIN log.confirmed[h] :
       LET entry == log.confirmed[h][i]
       IN  Len(log.confirmed[h]) - i < MaxKept /\ ~entry.overlapped =>
              \E k \in DOMAIN res :
                 /\ res[k] = entry.reservation
                 /\ i + (Len(res) - k) <= Len(log.confirmed[h])

\* What a request holds: an availability it checked, and what it stored.
RequestGood(r) ==
    /\ r.at = "makeReservation" =>
          /\ r.got \in Hotel!Availability
          /\ Fits(r.got)
          /\ Hotel!checkAvailability(r.got, r.want)
          /\ OnRecord(r.got.reservations, r.hotel)
    /\ r.at \in {"addHotelAvailability", "storeProfile"} => db.rate[r.hotel] # Missing
    /\ r.at = "storeProfile" => db.availability[r.hotel] # Missing

HotelGood(h) ==
    /\ db.availability[h] # Missing => Fits(db.availability[h])
    /\ log.confirmed[h] # <<>> =>
          db.availability[h] # Missing /\ OnRecord(db.availability[h].reservations, h)
    /\ h \in log.stored => db.rate[h] # Missing /\ db.availability[h] # Missing

HotelInv ==
    /\ HotelTypes
    /\ \A c \in Client : RequestGood(run[c])
    /\ \A h \in HotelId : HotelGood(h)

LEMMA HotelStarts == Hotel!Init => HotelInv
  <1>. SUFFICES ASSUME Hotel!Init PROVE HotelInv
    OBVIOUS
  <1>. USE DEF Hotel!Init
  <1>1. HotelTypes
    BY DEF HotelTypes, HotelDb, HotelRun, HotelLog
  <1>2. \A c \in Client : RequestGood(run[c])
    BY DEF RequestGood, Hotel!Idle
  <1>3. \A h \in HotelId : HotelGood(h)
    BY DEF HotelGood
  <1>. QED
    BY <1>1, <1>2, <1>3 DEF HotelInv

\* A step that stores nothing, and whose run is a good one.
LEMMA HotelKept ==
    ASSUME HotelInv, NEW c \in Client, NEW r \in HotelRun, RequestGood(r),
           db' = db, run' = [run EXCEPT ![c] = r],
           log' = log \/ log' = [log EXCEPT !.requests = @ + 1]
    PROVE  HotelInv'
  <1>1. log' \in HotelLog /\ log'.stored = log.stored /\ log'.confirmed = log.confirmed
    <2>1. log \in HotelLog /\ log.requests + 1 \in Nat
      BY DEF HotelInv, HotelTypes, HotelLog
    <2>. QED
      BY <2>1 DEF HotelLog
  <1>2. HotelTypes'
    <2>1. run' \in [Client -> HotelRun]
      BY DEF HotelInv, HotelTypes
    <2>. QED
      BY <1>1, <2>1 DEF HotelInv, HotelTypes
  <1>3. ASSUME NEW d \in Client PROVE RequestGood(run[d])'
    <2>1. run'[d] = run[d] \/ run'[d] = r
      BY DEF HotelInv, HotelTypes
    <2>2. PICK s : s = run'[d] /\ RequestGood(s)
      BY <2>1 DEF HotelInv
    <2>. QED
      BY <1>1, <2>2 DEF RequestGood, OnRecord
  <1>4. ASSUME NEW h \in HotelId PROVE HotelGood(h)'
    <2>1. HotelGood(h)
      BY DEF HotelInv
    <2>. QED
      BY <1>1, <2>1 DEF HotelGood, OnRecord
  <1>. QED
    BY <1>2, <1>3, <1>4 DEF HotelInv

\* The steps that only read, or begin or end a request.
LEMMA HotelReads ==
    ASSUME HotelInv, NEW c \in Client,
           \/ Hotel!StoreHotel(c) \/ Hotel!GetHotelIds(c)
           \/ Hotel!SearchHotels(c) \/ Hotel!Nearby(c) \/ Hotel!SearchPanics(c)
           \/ Hotel!GetRates(c) \/ Hotel!CheckAvailability(c) \/ Hotel!GetProfiles(c)
           \/ Hotel!FrontendReservation(c) \/ Hotel!Login(c) \/ Hotel!GetAvailability(c)
    PROVE  HotelInv'
  <1>. DEFINE Good(r) == /\ r \in HotelRun /\ RequestGood(r)
                         /\ db' = db /\ run' = [run EXCEPT ![c] = r]
                         /\ log' = log \/ log' = [log EXCEPT !.requests = @ + 1]
  <1>1. Hotel!Idle \in HotelRun /\ RequestGood(Hotel!Idle)
    BY DEF HotelRun, RequestGood, Hotel!Idle
  <1>2. run[c] \in HotelRun /\ db.location \in Seq(HotelId)
        /\ db.availability \in [HotelId -> Hotel!Availability \cup {Missing}]
        /\ log.requests \in Nat
    BY DEF HotelInv, HotelTypes, HotelDb, HotelLog
  <1>3. CASE Hotel!StoreHotel(c)
    <2>1. PICK h \in HotelId, cap \in Capacities :
             Hotel!Begin(c, [at |-> "getHotelIds", hotel |-> h, capacity |-> cap, ids |-> <<>>])
      BY <1>3 DEF Hotel!StoreHotel
    <2>2. Good([at |-> "getHotelIds", hotel |-> h, capacity |-> cap, ids |-> <<>>])
      BY <2>1 DEF Hotel!Begin, HotelRun, StoreRun, RequestGood
    <2>. QED
      BY <2>2, HotelKept
  <1>4. CASE Hotel!GetHotelIds(c)
    <2>1. run[c] \in StoreRun
      BY <1>2, <1>4 DEF Hotel!GetHotelIds, HotelRun, Hotel!Idle, StoreRun, SearchRun, BookRun
    <2>2. Good([run[c] EXCEPT !.at = "storeHotelLocation", !.ids = db.location])
      BY <1>2, <1>4, <2>1 DEF Hotel!GetHotelIds, Hotel!Goto, HotelRun, StoreRun, RequestGood
    <2>. QED
      BY <2>2, HotelKept
  <1>5. CASE Hotel!SearchHotels(c)
    <2>1. PICK d \in Day :
             Hotel!Begin(c, [at |-> "nearby", todo |-> <<>>,
                             want |-> [id |-> 0, inDate |-> d, outDate |-> d, rooms |-> 1],
                             ids |-> <<>>])
      BY <1>5 DEF Hotel!SearchHotels
    <2>2. Good([at |-> "nearby", todo |-> <<>>,
                want |-> [id |-> 0, inDate |-> d, outDate |-> d, rooms |-> 1], ids |-> <<>>])
      BY <2>1 DEF Hotel!Begin, HotelRun, SearchRun, RequestGood
    <2>. QED
      BY <2>2, HotelKept
  <1>6. CASE Hotel!Nearby(c) \/ Hotel!GetRates(c) \/ Hotel!CheckAvailability(c)
    <2>1. run[c] \in SearchRun
      BY <1>2, <1>6 DEF Hotel!Nearby, Hotel!GetRates, Hotel!CheckAvailability, HotelRun,
         Hotel!Idle, StoreRun, SearchRun, BookRun
    <2>2. run[c].todo \in Seq(HotelId) /\ run[c].ids \in Seq(HotelId)
      BY <2>1 DEF SearchRun
    <2>3. run[c].todo # <<>> =>
             Head(run[c].todo) \in HotelId /\ Tail(run[c].todo) \in Seq(HotelId)
      BY <2>2, HeadTailProperties
    <2>. USE DEF Hotel!Goto
    <2>4. \E r \in SearchRun : /\ db' = db /\ log' = log /\ run' = [run EXCEPT ![c] = r]
                               /\ r.at \in {"getRates", "checkAvailability", "getProfiles"}
      <3>1. CASE Hotel!Nearby(c)
        <4>1. [run[c] EXCEPT !.at = "getRates", !.todo = db.location, !.ids = db.location]
                 \in SearchRun
          BY <1>2, <2>1 DEF SearchRun
        <4>. QED
          BY <2>1, <3>1, <4>1 DEF Hotel!Nearby, SearchRun
      <3>2. CASE Hotel!GetRates(c)
        <4>1. [run[c] EXCEPT !.at = "checkAvailability", !.todo = run[c].ids, !.ids = <<>>]
                 \in SearchRun
          <5>1. <<>> \in Seq(HotelId)
            OBVIOUS
          <5>. QED
            BY <2>1, <2>2, <5>1 DEF SearchRun
        <4>2. run[c].todo # <<>> => [run[c] EXCEPT !.todo = Tail(@)] \in SearchRun
          BY <2>1, <2>3 DEF SearchRun
        <4>. QED
          BY <2>1, <3>2, <4>1, <4>2 DEF Hotel!GetRates, SearchRun
      <3>3. CASE Hotel!CheckAvailability(c)
        <4>. DEFINE h == Head(run[c].todo)
                    kept == IF Hotel!checkAvailability(db.availability[h], run[c].want)
                            THEN Append(run[c].ids, h) ELSE run[c].ids
        <4>1. [run[c] EXCEPT !.at = "getProfiles"] \in SearchRun
          BY <2>1 DEF SearchRun
        <4>2. run[c].todo # <<>> => kept \in Seq(HotelId)
          BY <2>2, <2>3
        <4>3. run[c].todo # <<>> =>
                 run' = [run EXCEPT ![c] = [run[c] EXCEPT !.todo = Tail(@), !.ids = kept]]
          BY <2>1, <3>3 DEF Hotel!CheckAvailability, SearchRun
        <4>. HIDE DEF kept
        <4>4. run[c].todo # <<>> =>
                 [run[c] EXCEPT !.todo = Tail(@), !.ids = kept] \in SearchRun
          BY <2>1, <2>3, <4>2 DEF SearchRun
        <4>. QED
          BY <2>1, <3>3, <4>1, <4>3, <4>4 DEF Hotel!CheckAvailability, SearchRun
      <3>. QED
        BY <1>6, <3>1, <3>2, <3>3
    <2>5. PICK r \in SearchRun : /\ db' = db /\ log' = log /\ run' = [run EXCEPT ![c] = r]
                                 /\ r.at \in {"getRates", "checkAvailability", "getProfiles"}
      BY <2>4
    <2>6. r \in HotelRun /\ RequestGood(r)
      BY <2>5 DEF HotelRun, RequestGood
    <2>. QED
      BY <2>5, <2>6, HotelKept
  <1>7. CASE Hotel!SearchPanics(c) \/ Hotel!GetProfiles(c)
    <2>1. Good(Hotel!Idle)
      BY <1>1, <1>7 DEF Hotel!SearchPanics, Hotel!GetProfiles, Hotel!End, Hotel!Goto
    <2>. QED
      BY <2>1, HotelKept
  <1>8. CASE Hotel!FrontendReservation(c)
    <2>1. PICK h \in HotelId, d1 \in Day, d2 \in Day, n \in Rooms :
             Hotel!Begin(c, [at |-> "login", hotel |-> h, got |-> Missing,
                             want |-> [id |-> log.requests, inDate |-> d1, outDate |-> d2,
                                       rooms |-> n]])
      BY <1>8 DEF Hotel!FrontendReservation
    <2>2. Good([at |-> "login", hotel |-> h, got |-> Missing,
                want |-> [id |-> log.requests, inDate |-> d1, outDate |-> d2, rooms |-> n]])
      BY <1>2, <2>1 DEF Hotel!Begin, HotelRun, BookRun, Hotel!Reservation, RequestGood
    <2>. QED
      BY <2>2, HotelKept
  <1>9. CASE Hotel!Login(c)
    <2>1. run[c] \in BookRun
      BY <1>2, <1>9 DEF Hotel!Login, HotelRun, Hotel!Idle, StoreRun, SearchRun, BookRun
    <2>2. [run[c] EXCEPT !.at = "getAvailability"] \in HotelRun
      BY <2>1 DEF HotelRun, BookRun
    <2>3. RequestGood([run[c] EXCEPT !.at = "getAvailability"])
      BY <2>1 DEF BookRun, RequestGood
    <2>4. Good(Hotel!Idle) \/ Good([run[c] EXCEPT !.at = "getAvailability"])
      BY <1>1, <1>9, <2>2, <2>3 DEF Hotel!Login, Hotel!End, Hotel!Goto
    <2>. QED
      BY <2>4, HotelKept
  <1>10. CASE Hotel!GetAvailability(c)
    <2>1. run[c] \in BookRun
      BY <1>2, <1>10 DEF Hotel!GetAvailability, HotelRun, Hotel!Idle, StoreRun, SearchRun, BookRun
    <2>2. run[c].hotel \in HotelId
      BY <2>1 DEF BookRun
    <2>. DEFINE a == db.availability[run[c].hotel]
                r == [run[c] EXCEPT !.at = "makeReservation", !.got = a]
    <2>3. CASE a = Missing \/ ~Hotel!checkAvailability(a, run[c].want)
      <3>1. Good(Hotel!Idle)
        BY <1>1, <1>10, <2>3 DEF Hotel!GetAvailability, Hotel!End, Hotel!Goto
      <3>. QED
        BY <3>1, HotelKept
    <2>4. CASE ~(a = Missing \/ ~Hotel!checkAvailability(a, run[c].want))
      <3>1. a \in Hotel!Availability /\ Fits(a)
        BY <1>2, <2>2, <2>4 DEF HotelInv, HotelGood
      <3>2. OnRecord(a.reservations, run[c].hotel)
        <4>1. log.confirmed[run[c].hotel] # <<>> => OnRecord(a.reservations, run[c].hotel)
          BY <2>2 DEF HotelInv, HotelGood
        <4>2. log.confirmed[run[c].hotel] = <<>> => OnRecord(a.reservations, run[c].hotel)
          BY DEF OnRecord
        <4>. QED
          BY <4>1, <4>2
      <3>3. /\ r \in BookRun /\ r.at = "makeReservation" /\ r.got = a
            /\ r.want = run[c].want /\ r.hotel = run[c].hotel
        BY <2>1, <3>1 DEF BookRun
      <3>4. db' = db /\ log' = log /\ run' = [run EXCEPT ![c] = r]
        BY <1>10, <2>4 DEF Hotel!GetAvailability, Hotel!Goto
      <3>. HIDE DEF r
      <3>5. RequestGood(r)
        BY <2>4, <3>1, <3>2, <3>3 DEF RequestGood
      <3>. QED
        BY <3>3, <3>4, <3>5, HotelKept DEF HotelRun
    <2>. QED
      BY <2>3, <2>4
  <1>. QED
    BY <1>3, <1>4, <1>5, <1>6, <1>7, <1>8, <1>9, <1>10

LEMMA RunsAt ==
    ASSUME HotelInv, NEW c \in Client
    PROVE  /\ run[c].at \in {"getHotelIds", "storeHotelLocation", "storeRate",
                             "addHotelAvailability", "storeProfile"} => run[c] \in StoreRun
           /\ run[c].at = "makeReservation" => run[c] \in BookRun
  BY DEF HotelInv, HotelTypes, HotelRun, Hotel!Idle, StoreRun, SearchRun, BookRun

\* The steps that store a part of a hotel, or a user.
LEMMA PartsStored ==
    ASSUME HotelInv, NEW c \in Client,
           \/ Hotel!RegisterUser(c) \/ Hotel!StoreHotelLocation(c) \/ Hotel!StoreRate(c)
           \/ Hotel!StoreProfile(c)
    PROVE  HotelInv'
  <1>. USE DEF Hotel!Goto, Hotel!End
  <1>0. /\ db \in HotelDb /\ run \in [Client -> HotelRun] /\ log \in HotelLog
        /\ Missing # "rate"
    BY MissingAssumption DEF HotelInv, HotelTypes
  <1>1. /\ db' \in HotelDb
        /\ db'.availability = db.availability
        /\ \A h \in HotelId : db.rate[h] # Missing => db'.rate[h] # Missing
    <2>1. CASE Hotel!RegisterUser(c)
      BY <1>0, <2>1 DEF Hotel!RegisterUser, HotelDb
    <2>2. CASE Hotel!StoreHotelLocation(c)
      <3>1. run[c].ids \in Seq(HotelId) /\ run[c].hotel \in HotelId
        BY <2>2, RunsAt DEF Hotel!StoreHotelLocation, StoreRun
      <3>. DEFINE new == Hotel!Bounded(run[c].ids, run[c].hotel)
      <3>2. new \in Seq(HotelId)
        BY <3>1, BoundedFacts
      <3>3. db' = [db EXCEPT !.location = new]
        BY <2>2 DEF Hotel!StoreHotelLocation
      <3>. HIDE DEF new
      <3>. QED
        BY <1>0, <3>2, <3>3 DEF HotelDb
    <2>3. CASE Hotel!StoreRate(c)
      <3>1. run[c].hotel \in HotelId
        BY <2>3, RunsAt DEF Hotel!StoreRate, StoreRun
      <3>. QED
        BY <1>0, <2>3, <3>1 DEF Hotel!StoreRate, HotelDb
    <2>4. CASE Hotel!StoreProfile(c)
      <3>1. run[c].hotel \in HotelId
        BY <2>4, RunsAt DEF Hotel!StoreProfile, StoreRun
      <3>. QED
        BY <1>0, <2>4, <3>1 DEF Hotel!StoreProfile, HotelDb
    <2>. QED
      BY <2>1, <2>2, <2>3, <2>4
  <1>2. \E r \in HotelRun :
           /\ run' = [run EXCEPT ![c] = r]
           /\ r.at # "makeReservation"
           /\ r.at \in {"addHotelAvailability", "storeProfile"} => db'.rate[r.hotel] # Missing
           /\ r.at = "storeProfile" => db'.availability[r.hotel] # Missing
    <2>0. Hotel!Idle \in HotelRun /\ Hotel!Idle.at = "idle"
      BY DEF HotelRun, Hotel!Idle
    <2>1. CASE Hotel!RegisterUser(c)
      <3>1. run' = [run EXCEPT ![c] = Hotel!Idle]
        BY <1>0, <2>1 DEF Hotel!RegisterUser
      <3>. QED
        BY <2>0, <3>1
    <2>2. CASE Hotel!StoreHotelLocation(c)
      <3>. DEFINE r == [run[c] EXCEPT !.at = "storeRate"]
      <3>1. r \in StoreRun /\ r.at = "storeRate" /\ run' = [run EXCEPT ![c] = r]
        BY <2>2, RunsAt DEF Hotel!StoreHotelLocation, StoreRun
      <3>. QED
        BY <3>1 DEF HotelRun
    <2>3. CASE Hotel!StoreRate(c)
      <3>. DEFINE r == [run[c] EXCEPT !.at = "addHotelAvailability"]
      <3>1. /\ r \in StoreRun /\ r.at = "addHotelAvailability" /\ r.hotel = run[c].hotel
            /\ run' = [run EXCEPT ![c] = r] /\ run[c].hotel \in HotelId
        BY <2>3, RunsAt DEF Hotel!StoreRate, StoreRun
      <3>2. db'.rate[run[c].hotel] = "rate"
        BY <1>0, <2>3, <3>1 DEF Hotel!StoreRate, HotelDb
      <3>. QED
        BY <1>0, <3>1, <3>2 DEF HotelRun
    <2>4. CASE Hotel!StoreProfile(c)
      BY <2>0, <2>4 DEF Hotel!StoreProfile
    <2>. QED
      BY <2>1, <2>2, <2>3, <2>4
  <1>3. PICK r \in HotelRun :
           /\ run' = [run EXCEPT ![c] = r]
           /\ r.at # "makeReservation"
           /\ r.at \in {"addHotelAvailability", "storeProfile"} => db'.rate[r.hotel] # Missing
           /\ r.at = "storeProfile" => db'.availability[r.hotel] # Missing
    BY <1>2
  <1>4. /\ log' \in HotelLog /\ log'.confirmed = log.confirmed
        /\ \A h \in log'.stored : h \notin log.stored =>
              db.rate[h] # Missing /\ db.availability[h] # Missing
    <2>1. CASE Hotel!StoreProfile(c)
      <3>1. run[c].hotel \in HotelId
        BY <2>1, RunsAt DEF Hotel!StoreProfile, StoreRun
      <3>2. db.rate[run[c].hotel] # Missing /\ db.availability[run[c].hotel] # Missing
        BY <2>1 DEF Hotel!StoreProfile, HotelInv, RequestGood
      <3>3. log' = [log EXCEPT !.stored = @ \cup {run[c].hotel}]
        BY <2>1 DEF Hotel!StoreProfile
      <3>. QED
        BY <1>0, <3>1, <3>2, <3>3 DEF HotelLog
    <2>2. CASE ~Hotel!StoreProfile(c)
      BY <1>0, <2>2 DEF Hotel!RegisterUser, Hotel!StoreHotelLocation, Hotel!StoreRate
    <2>. QED
      BY <2>1, <2>2
  <1>5. run' \in [Client -> HotelRun]
    BY <1>0, <1>3
  <1>6. ASSUME NEW d \in Client PROVE RequestGood(run[d])'
    <2>1. CASE d = c
      <3>1. run'[d] = r
        BY <1>0, <1>3, <2>1
      <3>. QED
        BY <1>3, <3>1 DEF RequestGood
    <2>2. CASE d # c
      <3>1. run'[d] = run[d] /\ RequestGood(run[d])
        BY <1>0, <1>3, <2>2 DEF HotelInv
      <3>2. run[d].at \in {"addHotelAvailability", "storeProfile"} => run[d].hotel \in HotelId
        BY RunsAt DEF StoreRun
      <3>. QED
        BY <1>1, <1>4, <3>1, <3>2 DEF RequestGood, OnRecord
    <2>. QED
      BY <2>1, <2>2
  <1>7. ASSUME NEW h \in HotelId PROVE HotelGood(h)'
    <2>1. HotelGood(h)
      BY DEF HotelInv
    <2>. QED
      BY <1>1, <1>4, <2>1 DEF HotelGood, OnRecord
  <1>8. HotelTypes'
    BY <1>1, <1>4, <1>5 DEF HotelTypes
  <1>. QED
    BY <1>6, <1>7, <1>8 DEF HotelInv

\* The hotel is stored again: nothing is on record of it.
LEMMA AvailabilityAdded ==
    ASSUME HotelInv, NEW c \in Client, Hotel!AddHotelAvailability(c)
    PROVE  HotelInv'
  <1>. USE DEF Hotel!Goto
  <1>. DEFINE h0 == run[c].hotel
              a == [capacity |-> run[c].capacity, reservations |-> <<>>]
              r == [run[c] EXCEPT !.at = "storeProfile"]
  <1>0. db \in HotelDb /\ run \in [Client -> HotelRun] /\ log \in HotelLog
    BY DEF HotelInv, HotelTypes
  <1>1. run[c] \in StoreRun /\ run[c].at = "addHotelAvailability"
    BY RunsAt DEF Hotel!AddHotelAvailability
  <1>2. h0 \in HotelId /\ run[c].capacity \in Capacities
    BY <1>1 DEF StoreRun
  <1>3. a \in Hotel!Availability /\ a # Missing /\ Fits(a)
    <2>1. a \in Hotel!Availability
      BY <1>2 DEF Hotel!Availability
    <2>2. Fits(a)
      BY AmountsAssumption DEF Fits
    <2>. QED
      BY <2>1, <2>2, MissingAssumption
  <1>4. r \in StoreRun /\ r.at = "storeProfile" /\ r.hotel = h0
    BY <1>1 DEF StoreRun
  <1>5. db' = [db EXCEPT !.availability = [@ EXCEPT ![h0] = a]] /\ run' = [run EXCEPT ![c] = r]
        /\ log' = [log EXCEPT !.confirmed = [@ EXCEPT ![h0] = <<>>]]
    BY DEF Hotel!AddHotelAvailability
  <1>6. db.rate[h0] # Missing
    BY <1>1 DEF HotelInv, RequestGood
  <1>. HIDE DEF h0, a, r
  <1>7. /\ db' \in HotelDb /\ db'.rate = db.rate
        /\ db'.availability = [db.availability EXCEPT ![h0] = a]
    BY <1>0, <1>2, <1>3, <1>5 DEF HotelDb
  <1>8. /\ log' \in HotelLog /\ log'.stored = log.stored
        /\ log'.confirmed = [log.confirmed EXCEPT ![h0] = <<>>]
    <2>1. <<>> \in Seq(Told)
      OBVIOUS
    <2>. QED
      BY <1>0, <1>2, <1>5, <2>1 DEF HotelLog
  <1>9. /\ \A h \in HotelId : db'.availability[h] = IF h = h0 THEN a ELSE db.availability[h]
        /\ \A h \in HotelId : log'.confirmed[h] = IF h = h0 THEN <<>> ELSE log.confirmed[h]
    BY <1>0, <1>7, <1>8 DEF HotelDb, HotelLog
  <1>10. ASSUME NEW h \in HotelId, NEW res, OnRecord(res, h)
         PROVE  /\ log'.confirmed[h] # <<>> => OnRecord(res, h)'
                /\ log'.confirmed[h] = <<>> => OnRecord(res, h)'
    <2>1. CASE h = h0
      BY <1>2, <1>9, <2>1 DEF OnRecord
    <2>2. CASE h # h0
      BY <1>9, <1>10, <2>2 DEF OnRecord
    <2>. QED
      BY <2>1, <2>2
  <1>11. ASSUME NEW d \in Client PROVE RequestGood(run[d])'
    <2>1. CASE d = c
      <3>1. run'[d] = r
        BY <1>0, <1>5, <2>1
      <3>. QED
        BY <1>2, <1>3, <1>4, <1>6, <1>7, <1>9, <3>1 DEF RequestGood
    <2>2. CASE d # c
      <3>1. run'[d] = run[d] /\ RequestGood(run[d])
        BY <1>0, <1>5, <2>2 DEF HotelInv
      <3>2. run[d].at = "makeReservation" => OnRecord(run[d].got.reservations, run[d].hotel)'
        <4>1. run[d].at = "makeReservation" => run[d].hotel \in HotelId
          BY RunsAt DEF BookRun
        <4>2. PICK res, h : res = run[d].got.reservations /\ h = run[d].hotel
          OBVIOUS
        <4>3. run[d].at = "makeReservation" => OnRecord(res, h)'
          BY <1>10, <3>1, <4>1, <4>2 DEF RequestGood
        <4>. QED
          BY <3>1, <4>2, <4>3 DEF OnRecord
      <3>3. run[d].at \in {"addHotelAvailability", "storeProfile"} => run[d].hotel \in HotelId
        BY RunsAt DEF StoreRun
      <3>. QED
        BY <1>3, <1>7, <1>9, <3>1, <3>2, <3>3 DEF RequestGood
    <2>. QED
      BY <2>1, <2>2
  <1>12. ASSUME NEW h \in HotelId PROVE HotelGood(h)'
    <2>1. HotelGood(h)
      BY DEF HotelInv
    <2>2. CASE h = h0
      <3>1. db'.availability[h] = a /\ log'.confirmed[h] = <<>>
        BY <1>9, <2>2
      <3>. QED
        BY <1>3, <1>6, <1>7, <2>2, <3>1 DEF HotelGood
    <2>3. CASE h # h0
      <3>1. db'.availability[h] = db.availability[h] /\ log'.confirmed[h] = log.confirmed[h]
        BY <1>9, <2>3
      <3>. QED
        BY <1>7, <1>8, <2>1, <3>1 DEF HotelGood, OnRecord
    <2>. QED
      BY <2>2, <2>3
  <1>13. HotelTypes'
    BY <1>0, <1>4, <1>5, <1>7, <1>8 DEF HotelTypes, HotelRun
  <1>. QED
    BY <1>11, <1>12, <1>13 DEF HotelInv

\* One more is confirmed of h: what is on record of the others stays on record.
LEMMA OneMoreConfirmed ==
    ASSUME HotelInv, NEW h \in HotelId, NEW x \in Told,
           log'.confirmed[h] = Append(log.confirmed[h], x)
    PROVE  /\ \A res \in Seq(Hotel!Reservation) :
                 OnRecord(res, h) /\ x.overlapped => OnRecord(res, h)'
           /\ \A res \in Seq(Hotel!Reservation) :
                 OnRecord(res, h) => OnRecord(Hotel!Bounded(res, x.reservation), h)'
  <1>. DEFINE conf == log.confirmed[h]
              n == Len(conf)
              more == Append(conf, x)
  <1>1. conf \in Seq(Told) /\ x.reservation \in Hotel!Reservation
    BY DEF HotelInv, HotelTypes, HotelLog, Told
  <1>2. /\ n \in Nat /\ DOMAIN conf = 1..n /\ Len(more) = n + 1 /\ DOMAIN more = 1..(n + 1)
        /\ \A i \in 1..n : more[i] = conf[i]
        /\ more[n + 1] = x
    BY <1>1
  <1>3. log'.confirmed[h] = more
    OBVIOUS
  <1>4. MaxKept \in Nat
    BY AmountsAssumption
  <1>. HIDE DEF n, more
  <1>5. ASSUME NEW i \in 1..(n + 1), (n + 1) - i < MaxKept, i # n + 1
        PROVE  i \in 1..n /\ n - i < MaxKept /\ more[i] = conf[i]
    <2>1. i \in 1..n /\ n - i < MaxKept
      BY <1>2, <1>4, <1>5
    <2>. QED
      BY <1>2, <2>1
  <1>6. ASSUME NEW res \in Seq(Hotel!Reservation), OnRecord(res, h), x.overlapped
        PROVE  OnRecord(res, h)'
    <2>1. ASSUME NEW i \in 1..(n + 1), (n + 1) - i < MaxKept, ~more[i].overlapped
          PROVE  \E k \in DOMAIN res : /\ res[k] = more[i].reservation
                                       /\ i + (Len(res) - k) <= n + 1
      <3>1. i # n + 1
        BY <1>2, <1>6, <2>1
      <3>2. i \in 1..n /\ n - i < MaxKept /\ more[i] = conf[i]
        BY <1>5, <2>1, <3>1
      <3>3. PICK k \in DOMAIN res : res[k] = conf[i].reservation /\ i + (Len(res) - k) <= n
        BY <1>2, <1>6, <2>1, <3>2 DEF OnRecord, n
      <3>4. k \in Nat /\ Len(res) \in Nat
        OBVIOUS
      <3>. QED
        BY <1>2, <3>2, <3>3, <3>4
    <2>. QED
      BY <1>2, <1>3, <2>1 DEF OnRecord
  <1>7. ASSUME NEW res \in Seq(Hotel!Reservation), OnRecord(res, h)
        PROVE  OnRecord(Hotel!Bounded(res, x.reservation), h)'
    <2>. DEFINE new == Hotel!Bounded(res, x.reservation)
                d == Dropped(res)
                N == Len(res) - d
    <2>1. /\ new \in Seq(Hotel!Reservation) /\ Len(new) = N + 1
          /\ N \in Nat /\ d \in {0, 1}
          /\ \A k \in 1..N : new[k] = res[k + d]
          /\ new[N + 1] = x.reservation
      <3>1. PICK r : r = x.reservation
        OBVIOUS
      <3>2. r \in Hotel!Reservation
        BY <1>1, <3>1
      <3>3. /\ Hotel!Bounded(res, r) \in Seq(Hotel!Reservation)
            /\ Len(Hotel!Bounded(res, r)) = (Len(res) - Dropped(res)) + 1
            /\ Len(res) - Dropped(res) \in Nat /\ Dropped(res) \in {0, 1}
            /\ \A k \in 1..(Len(res) - Dropped(res)) :
                  Hotel!Bounded(res, r)[k] = res[k + Dropped(res)]
            /\ Hotel!Bounded(res, r)[(Len(res) - Dropped(res)) + 1] = r
        BY <3>2, BoundedFacts
      <3>. QED
        BY <3>1, <3>3
    <2>2. d = 1 => Len(res) >= MaxKept
      BY DEF Dropped
    <2>3. Len(res) \in Nat /\ DOMAIN res = 1..Len(res)
      OBVIOUS
    <2>4. DOMAIN new = 1..(N + 1)
      BY <2>1
    <2>. HIDE DEF new, d
    <2>5. ASSUME NEW i \in 1..(n + 1), (n + 1) - i < MaxKept, ~more[i].overlapped
          PROVE  \E k \in DOMAIN new : /\ new[k] = more[i].reservation
                                       /\ i + (Len(new) - k) <= n + 1
      <3>1. CASE i = n + 1
        <4>1. N + 1 \in DOMAIN new /\ new[N + 1] = more[i].reservation
          BY <1>2, <2>1, <2>4, <3>1
        <4>2. i + (Len(new) - (N + 1)) <= n + 1
          BY <1>2, <2>1, <3>1
        <4>. QED
          BY <4>1, <4>2
      <3>2. CASE i # n + 1
        <4>1. i \in 1..n /\ n - i < MaxKept /\ more[i] = conf[i]
          BY <1>5, <2>5, <3>2
        <4>2. PICK k \in DOMAIN res : res[k] = conf[i].reservation /\ i + (Len(res) - k) <= n
          BY <1>2, <1>7, <2>5, <4>1 DEF OnRecord, n
        <4>3. k \in 1..Len(res)
          BY <2>3
        <4>4. k > d
          BY <1>2, <1>4, <2>1, <2>2, <2>3, <2>5, <4>1, <4>2, <4>3
        <4>5. k - d \in 1..N
          BY <2>1, <2>3, <4>3, <4>4
        <4>6. new[k - d] = more[i].reservation
          <5>1. (k - d) + d = k
            BY <2>1, <4>3
          <5>. QED
            BY <2>1, <4>1, <4>2, <4>5, <5>1
        <4>7. k - d \in DOMAIN new
          BY <2>1, <2>4, <4>5
        <4>8. i + (Len(new) - (k - d)) <= n + 1
          BY <1>2, <2>1, <2>3, <4>1, <4>2, <4>3
        <4>. QED
          BY <4>6, <4>7, <4>8
      <3>. QED
        BY <3>1, <3>2
    <2>. QED
      BY <1>2, <1>3, <2>5 DEF OnRecord, new
  <1>. QED
    BY <1>6, <1>7

\* A reservation is stored over whatever was stored since the read.
LEMMA ReservationMade ==
    ASSUME HotelInv, NEW c \in Client, Hotel!MakeReservation(c)
    PROVE  HotelInv'
  <1>. USE DEF Hotel!Goto, Hotel!End
  <1>a. PICK h0 : h0 = run[c].hotel
    OBVIOUS
  <1>b. PICK got, want : got = run[c].got /\ want = run[c].want
    OBVIOUS
  <1>c. PICK booked : booked = Hotel!Book(got, want)
    OBVIOUS
  <1>d. PICK x : x = [reservation |-> want, overlapped |-> Hotel!Overlapped(c)]
    OBVIOUS
  <1>0. db \in HotelDb /\ run \in [Client -> HotelRun] /\ log \in HotelLog
    BY DEF HotelInv, HotelTypes
  <1>1. run[c] \in BookRun /\ run[c].at = "makeReservation"
    BY RunsAt DEF Hotel!MakeReservation
  <1>2. h0 \in HotelId /\ want \in Hotel!Reservation
    BY <1>a, <1>b, <1>1 DEF BookRun
  <1>3. /\ got \in Hotel!Availability /\ Fits(got)
        /\ Hotel!checkAvailability(got, want) /\ OnRecord(got.reservations, h0)
    BY <1>a, <1>b, <1>1 DEF HotelInv, RequestGood
  <1>4. booked \in Hotel!Availability /\ Fits(booked)
    BY <1>c, <1>2, <1>3, BookFits
  <1>5. booked.reservations = Hotel!Bounded(got.reservations, want)
    BY <1>c, <1>3 DEF Hotel!Book, Hotel!Availability
  <1>6. x \in Told /\ x.reservation = want /\ x.overlapped = Hotel!Overlapped(c)
    BY <1>d, <1>2 DEF Told, Hotel!Overlapped
  <1>7. /\ db' = [db EXCEPT !.availability = [@ EXCEPT ![h0] = booked]]
        /\ run' = [run EXCEPT ![c] = Hotel!Idle]
        /\ log' = [log EXCEPT !.confirmed = [@ EXCEPT ![h0] = Append(log.confirmed[h0], x)]]
    BY <1>a, <1>b, <1>c, <1>d DEF Hotel!MakeReservation
  <1>8. booked # Missing
    BY <1>4, MissingAssumption
  <1>9. /\ db' \in HotelDb /\ db'.rate = db.rate
        /\ db'.availability = [db.availability EXCEPT ![h0] = booked]
    BY <1>0, <1>2, <1>4, <1>7 DEF HotelDb
  <1>10. /\ log' \in HotelLog /\ log'.stored = log.stored
         /\ log'.confirmed = [log.confirmed EXCEPT ![h0] = Append(log.confirmed[h0], x)]
    <2>1. log.confirmed[h0] \in Seq(Told)
      BY <1>0, <1>2 DEF HotelLog
    <2>2. Append(log.confirmed[h0], x) \in Seq(Told)
      BY <1>6, <2>1
    <2>. QED
      BY <1>0, <1>2, <1>7, <2>2 DEF HotelLog
  <1>11. /\ db'.availability[h0] = booked
         /\ log'.confirmed[h0] = Append(log.confirmed[h0], x)
         /\ \A h \in HotelId \ {h0} : /\ db'.availability[h] = db.availability[h]
                                      /\ log'.confirmed[h] = log.confirmed[h]
    BY <1>0, <1>2, <1>9, <1>10 DEF HotelDb, HotelLog
  <1>12. /\ \A res \in Seq(Hotel!Reservation) :
               OnRecord(res, h0) /\ x.overlapped => OnRecord(res, h0)'
         /\ \A res \in Seq(Hotel!Reservation) :
               OnRecord(res, h0) => OnRecord(Hotel!Bounded(res, x.reservation), h0)'
    BY <1>2, <1>6, <1>11, OneMoreConfirmed
  <1>13. OnRecord(booked.reservations, h0)'
    <2>1. got.reservations \in Seq(Hotel!Reservation)
      BY <1>3 DEF Hotel!Availability
    <2>. QED
      BY <1>3, <1>5, <1>6, <1>12, <2>1
  <1>14. \A h \in HotelId \ {h0} : \A res : OnRecord(res, h) => OnRecord(res, h)'
    BY <1>11 DEF OnRecord
  <1>15. ASSUME NEW e \in Client PROVE RequestGood(run[e])'
    <2>1. CASE e = c
      <3>1. run'[e] = Hotel!Idle
        BY <1>0, <1>7, <2>1
      <3>. QED
        BY <3>1 DEF RequestGood, Hotel!Idle
    <2>2. CASE e # c
      <3>1. run'[e] = run[e] /\ RequestGood(run[e])
        BY <1>0, <1>7, <2>2 DEF HotelInv
      <3>2. PICK r : r = run[e]
        OBVIOUS
      <3>3. r.at \in {"addHotelAvailability", "storeProfile"} => r.hotel \in HotelId
        BY <3>2, RunsAt DEF StoreRun
      <3>4. r.at = "makeReservation" => OnRecord(r.got.reservations, r.hotel)'
        <4>1. SUFFICES ASSUME r.at = "makeReservation"
                       PROVE  OnRecord(r.got.reservations, r.hotel)'
          OBVIOUS
        <4>2. /\ r.hotel \in HotelId /\ r.got \in Hotel!Availability
              /\ OnRecord(r.got.reservations, r.hotel)
          BY <3>1, <3>2, <4>1, RunsAt DEF BookRun, RequestGood
        <4>3. r.got.reservations \in Seq(Hotel!Reservation)
          BY <4>2 DEF Hotel!Availability
        <4>4. CASE r.hotel = h0
          <5>1. x.overlapped
            BY <1>a, <1>6, <2>2, <3>2, <4>1, <4>4 DEF Hotel!Overlapped
          <5>. QED
            BY <1>12, <4>2, <4>3, <4>4, <5>1
        <4>5. CASE r.hotel # h0
          BY <1>14, <4>2, <4>5
        <4>. QED
          BY <4>4, <4>5
      <3>5. RequestGood(r)'
        <4>1. r.at = "storeProfile" => db'.availability[r.hotel] # Missing
          BY <1>8, <1>11, <3>1, <3>2, <3>3 DEF RequestGood
        <4>. QED
          BY <1>9, <3>1, <3>2, <3>4, <4>1 DEF RequestGood
      <3>. QED
        BY <3>1, <3>2, <3>5
    <2>. QED
      BY <2>1, <2>2
  <1>16. ASSUME NEW h \in HotelId PROVE HotelGood(h)'
    <2>1. HotelGood(h)
      BY DEF HotelInv
    <2>2. CASE h = h0
      BY <1>4, <1>8, <1>9, <1>10, <1>11, <1>13, <2>1, <2>2 DEF HotelGood
    <2>3. CASE h # h0
      BY <1>9, <1>10, <1>11, <1>14, <2>1, <2>3 DEF HotelGood
    <2>. QED
      BY <2>2, <2>3
  <1>17. HotelTypes'
    BY <1>0, <1>7, <1>9, <1>10 DEF HotelTypes, HotelRun
  <1>. QED
    BY <1>15, <1>16, <1>17 DEF HotelInv

LEMMA HotelNext == HotelInv /\ [Hotel!Next]_(Hotel!vars) => HotelInv'
  <1>. SUFFICES ASSUME HotelInv, [Hotel!Next]_(Hotel!vars) PROVE HotelInv'
    OBVIOUS
  <1>1. ASSUME NEW c \in Client, Hotel!Step(c) PROVE HotelInv'
    BY <1>1, HotelReads, PartsStored, AvailabilityAdded, ReservationMade DEF Hotel!Step
  <1>2. CASE UNCHANGED Hotel!vars
    <2>1. db' = db /\ run' = run /\ log' = log
      BY <1>2 DEF Hotel!vars
    <2>. QED
      BY <2>1 DEF HotelInv, HotelTypes, RequestGood, HotelGood, OnRecord
  <1>. QED
    BY <1>1, <1>2 DEF Hotel!Next

LEMMA HotelShows ==
    HotelInv => Hotel!RecordFits /\ Hotel!ConfirmedIsOnRecord /\ Hotel!SearchFindsStored
  <1>. SUFFICES ASSUME HotelInv
                PROVE  Hotel!RecordFits /\ Hotel!ConfirmedIsOnRecord /\ Hotel!SearchFindsStored
    OBVIOUS
  <1>1. Hotel!RecordFits
    BY DEF HotelInv, HotelGood, Fits, Hotel!RecordFits
  <1>2. ASSUME NEW h \in HotelId, NEW i \in DOMAIN log.confirmed[h],
               ~log.confirmed[h][i].overlapped, Len(log.confirmed[h]) - i < MaxKept
        PROVE  log.confirmed[h][i].reservation
                  \in Hotel!Range(db.availability[h].reservations)
    <2>1. log.confirmed[h] # <<>>
      OBVIOUS
    <2>2. OnRecord(db.availability[h].reservations, h)
      BY <2>1 DEF HotelInv, HotelGood
    <2>3. PICK k \in DOMAIN db.availability[h].reservations :
             db.availability[h].reservations[k] = log.confirmed[h][i].reservation
      BY <1>2, <2>2 DEF OnRecord
    <2>. QED
      BY <2>3 DEF Hotel!Range
  <1>3. Hotel!SearchFindsStored
    <2>1. \A h \in log.stored : db.rate[h] # Missing /\ db.availability[h] # Missing
      BY DEF HotelInv, HotelTypes, HotelLog, HotelGood
    <2>. QED
      BY <2>1 DEF Hotel!SearchFindsStored, Hotel!Lacks, Hotel!Reading
  <1>. QED
    BY <1>1, <1>2, <1>3 DEF Hotel!ConfirmedIsOnRecord

(***************************************************************************)
(* FrontendReservation, StoreHotel and SearchHotels of the hotel           *)
(* application, whatever overlaps: what is on record and what is found.    *)
(***************************************************************************)
THEOREM HotelKeepsItsWord ==
    Spec => [](RecordFits /\ ConfirmedIsOnRecord /\ SearchFindsStored)
  <1>. DEFINE Part == part = "hotel" => HotelInv
  <1>1. Init => Part
    BY HotelStarts DEF Init
  <1>2. Part /\ [Next]_vars => Part'
    <2>1. ASSUME Part, Next, part' = "hotel" PROVE HotelInv'
      <3>1. part = "hotel" /\ Hotel!Next
        BY <2>1 DEF Next, AroundStores
      <3>. QED
        BY <2>1, <3>1, HotelNext
    <2>2. ASSUME Part, UNCHANGED vars, part' = "hotel" PROVE HotelInv'
      <3>1. part = "hotel" /\ UNCHANGED Hotel!vars
        BY <2>2 DEF vars, Hotel!vars, storeVars
      <3>. QED
        BY <2>2, <3>1, HotelNext
    <2>. QED
      BY <2>1, <2>2
  <1>3. Part => RecordFits /\ ConfirmedIsOnRecord /\ SearchFindsStored
    BY HotelShows DEF RecordFits, ConfirmedIsOnRecord, SearchFindsStored
  <1>. HIDE DEF Part
  <1>. QED
    BY <1>1, <1>2, <1>3, PTL DEF Spec

-----------------------------------------------------------------------------
(***************************************************************************)
(* Movie: reviews are listed by movie and by user.                         *)
(***************************************************************************)
Review == [id : Nat, movie : MovieId, user : Movie!UserId]

Listing == {"uploadMovieReview", "getUserReviews", "uploadUserReview"}
AfterStore == {"getMovieReviews"} \cup Listing
WithUser == {"getMovieId", "storeReview"} \cup AfterStore

MovieRun ==
    {Movie!Idle}
    \cup [at : {"login", "getUserId"} \cup WithUser, title : MovieId, review : Nat,
          user : Movie!UserId \cup {Missing}, got : Seq(Nat)]
    \cup [at : {"readMovieInfo", "readPlot", "readMovieReviews"}, movie : MovieId]
    \cup [at : {"readReviews"}, ids : Seq(Nat), of : MovieId \cup Movie!UserId]

MovieDb ==
    [user : Movie!UserId \cup {Missing}, titles : SUBSET MovieId, info : SUBSET MovieId,
     plots : SUBSET MovieId, reviews : Seq(Review), byMovie : [MovieId -> Seq(Nat)],
     byUser : [Movie!UserId -> Seq(Nat)]]

MovieLog ==
    [requests : 0..MovieRequests, ids : Nat, composed : SUBSET Review, overlapped : SUBSET Nat,
     toMovie : [MovieId -> Seq(Review)], toUser : [Movie!UserId -> Seq(Review)]]

-----------------------------------------------------------------------------
\* All of list are stored reviews of x.
About(list, x) ==
    \A id \in Movie!Range(list) : \E r \in Movie!Range(db.reviews) :
       r.id = id /\ x \in {r.movie, r.user}

\* list holds the reviews sent last, one of lost aside, with at most as many
\* behind each of them as were sent after it.
Lists(list, sent, lost) ==
    \A i \in 1..Len(sent) : Len(sent) - i < MaxKept /\ sent[i].id \notin lost =>
       \E k \in 1..Len(list) : list[k] = sent[i].id /\ i + (Len(list) - k) <= Len(sent)

ReviewOf(r) == [id |-> r.review, movie |-> r.title, user |-> r.user]

\* What run r holds, and what it has done.
Holding(r) ==
    /\ r.at = "getUserId" => db.user # Missing
    /\ r.at \in WithUser => r.user \in Movie!UserId
    /\ r.at \in AfterStore => ReviewOf(r) \in Movie!Range(db.reviews)
    /\ r.at = "uploadMovieReview" =>
          About(r.got, r.title) /\ Lists(r.got, log.toMovie[r.title], log.overlapped)
    /\ r.at \in {"getUserReviews", "uploadUserReview"} =>
          ReviewOf(r) \in Movie!Range(log.toMovie[r.title])
    /\ r.at = "uploadUserReview" =>
          About(r.got, r.user) /\ Lists(r.got, log.toUser[r.user], log.overlapped)
    /\ r.at = "readReviews" => About(r.ids, r.of)

MovieLists ==
    /\ \A m \in MovieId :
          About(db.byMovie[m], m) /\ Lists(db.byMovie[m], log.toMovie[m], log.overlapped)
    /\ \A u \in Movie!UserId :
          About(db.byUser[u], u) /\ Lists(db.byUser[u], log.toUser[u], log.overlapped)
    /\ \A r \in log.composed :
          r \in Movie!Range(log.toMovie[r.movie]) /\ r \in Movie!Range(log.toUser[r.user])

MovieInv ==
    /\ db \in MovieDb /\ run \in [Client -> MovieRun] /\ log \in MovieLog
    /\ db.user # Missing => db.user <= log.requests
    /\ MovieLists
    /\ \A c \in Client : Holding(run[c])

-----------------------------------------------------------------------------
LEMMA MovieStarts == Movie!Init => MovieInv
  <1>. SUFFICES ASSUME Movie!Init PROVE MovieInv
    OBVIOUS
  <1>1. /\ db \in MovieDb /\ db.user = Missing
        /\ db.byMovie = [m \in MovieId |-> <<>>] /\ db.byUser = [u \in Movie!UserId |-> <<>>]
    BY DEF Movie!Init, MovieDb
  <1>2. /\ log \in MovieLog /\ log.composed = {}
        /\ log.toMovie = [m \in MovieId |-> <<>>] /\ log.toUser = [u \in Movie!UserId |-> <<>>]
    BY AmountsAssumption DEF Movie!Init, MovieLog
  <1>3. run \in [Client -> MovieRun] /\ \A c \in Client : run[c].at = "idle"
    BY DEF Movie!Init, MovieRun, Movie!Idle
  <1>4. \A c \in Client : Holding(run[c])
    BY <1>3 DEF Holding, WithUser, AfterStore, Listing
  <1>5. \A x, lost : About(<<>>, x) /\ Lists(<<>>, <<>>, lost)
    BY DEF About, Lists, Movie!Range
  <1>6. MovieLists
    BY <1>1, <1>2, <1>5 DEF MovieLists
  <1>. QED
    BY <1>1, <1>2, <1>3, <1>4, <1>6 DEF MovieInv

LEMMA RunFacts ==
    ASSUME NEW r \in MovieRun
    PROVE  /\ r.at \in {"login", "getUserId"} \cup WithUser =>
                 /\ r = [at |-> r.at, title |-> r.title, review |-> r.review, user |-> r.user,
                         got |-> r.got]
                 /\ r.title \in MovieId /\ r.review \in Nat
                 /\ r.user \in Movie!UserId \cup {Missing} /\ r.got \in Seq(Nat)
           /\ r.at \in {"readMovieInfo", "readPlot", "readMovieReviews"} =>
                 r = [at |-> r.at, movie |-> r.movie] /\ r.movie \in MovieId
           /\ r.at = "readReviews" => r.ids \in Seq(Nat) /\ r.of \in MovieId \cup Movie!UserId
           /\ r.at = "idle" => r = Movie!Idle
  BY DEF MovieRun, Movie!Idle, WithUser, AfterStore, Listing

\* What r holds stays true while reviews are added, lists and ghosts the same.
LEMMA HoldingStays ==
    ASSUME NEW r, Holding(r), Movie!Range(db.reviews) \subseteq Movie!Range(db'.reviews),
           db.user # Missing => db'.user # Missing,
           log'.overlapped = log.overlapped, log'.toMovie = log.toMovie, log'.toUser = log.toUser
    PROVE  Holding(r)'
  <1>1. \A list, x : About(list, x) => About(list, x)'
    BY DEF About
  <1>2. \A list, sent, lost : Lists(list, sent, lost)' = Lists(list, sent, lost)
    BY DEF Lists
  <1>. QED
    BY <1>1, <1>2 DEF Holding, ReviewOf

\* Lists stay good while reviews are added.
LEMMA ListsStay ==
    ASSUME MovieLists, Movie!Range(db.reviews) \subseteq Movie!Range(db'.reviews),
           db'.byMovie = db.byMovie, db'.byUser = db.byUser, log'.composed = log.composed,
           log'.overlapped = log.overlapped, log'.toMovie = log.toMovie, log'.toUser = log.toUser
    PROVE  MovieLists'
  <1>1. ASSUME NEW m \in MovieId
        PROVE  (About(db.byMovie[m], m) /\ Lists(db.byMovie[m], log.toMovie[m], log.overlapped))'
    <2>1. PICK list, sent, lost : /\ list = db.byMovie[m] /\ sent = log.toMovie[m]
                                  /\ lost = log.overlapped
      OBVIOUS
    <2>2. About(list, m) /\ Lists(list, sent, lost)
      BY <2>1 DEF MovieLists
    <2>3. list = db'.byMovie[m] /\ sent = log'.toMovie[m] /\ lost = log'.overlapped
      BY <2>1
    <2>. QED
      BY <2>2, <2>3 DEF About, Lists
  <1>2. ASSUME NEW u \in Movie!UserId
        PROVE  (About(db.byUser[u], u) /\ Lists(db.byUser[u], log.toUser[u], log.overlapped))'
    <2>1. PICK list, sent, lost : /\ list = db.byUser[u] /\ sent = log.toUser[u]
                                  /\ lost = log.overlapped
      OBVIOUS
    <2>2. About(list, u) /\ Lists(list, sent, lost)
      BY <2>1 DEF MovieLists
    <2>3. list = db'.byUser[u] /\ sent = log'.toUser[u] /\ lost = log'.overlapped
      BY <2>1
    <2>. QED
      BY <2>2, <2>3 DEF About, Lists
  <1>3. \A r \in log'.composed :
           r \in Movie!Range(log'.toMovie[r.movie]) /\ r \in Movie!Range(log'.toUser[r.user])
    BY DEF MovieLists
  <1>. QED
    BY <1>1, <1>2, <1>3 DEF MovieLists

\* The log when a request begins.
LEMMA RequestLogged ==
    ASSUME log \in MovieLog, log.requests < MovieRequests,
           log' = [log EXCEPT !.requests = log.requests + 1]
    PROVE  /\ log' \in MovieLog /\ log'.requests = log.requests + 1 /\ log.requests \in Nat
           /\ log'.composed = log.composed /\ log'.overlapped = log.overlapped
           /\ log'.toMovie = log.toMovie /\ log'.toUser = log.toUser
  <1>1. log.requests \in 0..MovieRequests
    BY DEF MovieLog
  <1>2. log.requests + 1 \in 0..MovieRequests /\ log.requests \in Nat
    BY <1>1, AmountsAssumption
  <1>. QED
    BY <1>2 DEF MovieLog

\* A run goes on to r; nothing is listed.
LEMMA MovieMoves ==
    ASSUME MovieInv, NEW c \in Client, NEW r \in MovieRun, run' = [run EXCEPT ![c] = r],
           Holding(r), db' = db, log' \in MovieLog, log'.requests >= log.requests,
           log'.composed = log.composed, log'.overlapped = log.overlapped,
           log'.toMovie = log.toMovie, log'.toUser = log.toUser
    PROVE  MovieInv'
  <1>1. /\ run' \in [Client -> MovieRun] /\ run'[c] = r
        /\ \A d \in Client \ {c} : run'[d] = run[d]
    BY DEF MovieInv
  <1>2. ASSUME NEW d \in Client PROVE Holding(run[d])'
    <2>1. PICK s : s = run'[d]
      OBVIOUS
    <2>2. Holding(s)
      BY <1>1, <2>1 DEF MovieInv
    <2>3. Holding(s)'
      BY <2>2, HoldingStays
    <2>. QED
      BY <2>1, <2>3
  <1>3. MovieLists'
    BY ListsStay DEF MovieInv
  <1>4. db'.user # Missing => db'.user <= log'.requests
    BY AmountsAssumption, MissingAssumption DEF MovieInv, MovieDb, MovieLog, Movie!UserId
  <1>. QED
    BY <1>1, <1>2, <1>3, <1>4 DEF MovieInv

\* The same, of a request that begins, that ends, and of one that neither
\* begins nor ends.
LEMMA MovieBegins ==
    ASSUME MovieInv, NEW c \in Client, NEW r \in MovieRun, Movie!Begin(c, r), Holding(r)
    PROVE  MovieInv'
  <1>1. /\ run' = [run EXCEPT ![c] = r] /\ db' = db
        /\ log' = [log EXCEPT !.requests = log.requests + 1] /\ log.requests < MovieRequests
    BY DEF Movie!Begin
  <1>2. /\ log' \in MovieLog /\ log'.requests >= log.requests
        /\ log'.composed = log.composed /\ log'.overlapped = log.overlapped
        /\ log'.toMovie = log.toMovie /\ log'.toUser = log.toUser
    <2>1. log' \in MovieLog /\ log'.requests = log.requests + 1 /\ log.requests \in Nat
      BY <1>1, RequestLogged DEF MovieInv
    <2>. QED
      BY <1>1, <2>1, RequestLogged DEF MovieInv
  <1>. QED
    BY <1>1, <1>2, MovieMoves

LEMMA MovieGoesOn ==
    ASSUME MovieInv, NEW c \in Client, NEW r \in MovieRun, Holding(r), Movie!Goto(c, r),
           db' = db, log' = log
    PROVE  MovieInv'
  <1>1. log \in MovieLog /\ log.requests >= log.requests
    BY AmountsAssumption DEF MovieInv, MovieLog
  <1>. QED
    BY <1>1, MovieMoves DEF Movie!Goto

LEMMA MovieEnds ==
    ASSUME MovieInv, NEW c \in Client, Movie!End(c), db' = db, log' = log
    PROVE  MovieInv'
  <1>1. Movie!Idle \in MovieRun /\ Holding(Movie!Idle)
    BY DEF MovieRun, Holding, Movie!Idle, WithUser, AfterStore, Listing
  <1>. QED
    BY <1>1, MovieGoesOn DEF Movie!End

\* Requests that compose, up to the storing of the review.
LEMMA MovieComposes ==
    ASSUME MovieInv, NEW c \in Client,
           \/ Movie!Compose(c) \/ Movie!Login(c) \/ Movie!GetUniqueIdAndUserId(c)
           \/ Movie!GetMovieId(c)
    PROVE  MovieInv'
  <1>1. PICK s \in MovieRun : s = run[c] /\ Holding(s)
    BY DEF MovieInv
  <1>2. CASE Movie!Compose(c)
    <2>1. PICK m \in MovieId :
             Movie!Begin(c, [at |-> "login", title |-> m, review |-> 0, user |-> Missing,
                             got |-> <<>>])
      BY <1>2 DEF Movie!Compose
    <2>2. PICK r : r = [at |-> "login", title |-> m, review |-> 0, user |-> Missing, got |-> <<>>]
      OBVIOUS
    <2>3. r \in MovieRun /\ Holding(r)
      BY <2>2 DEF MovieRun, Holding, WithUser, AfterStore, Listing
    <2>. QED
      BY <2>1, <2>2, <2>3, MovieBegins
  <1>3. CASE Movie!Login(c)
    <2>1. s.at = "login" /\ db' = db /\ log' = log
      BY <1>1, <1>3 DEF Movie!Login
    <2>2. CASE Movie!End(c)
      BY <2>1, <2>2, MovieEnds
    <2>3. CASE ~Movie!End(c)
      <3>1. PICK r : r = [s EXCEPT !.at = "getUserId"]
        OBVIOUS
      <3>2. db.user # Missing /\ Movie!Goto(c, r)
        BY <1>1, <1>3, <2>3, <3>1 DEF Movie!Login
      <3>3. r \in MovieRun /\ Holding(r)
        BY <2>1, <3>1, <3>2, RunFacts
           DEF MovieRun, Holding, WithUser, AfterStore, Listing
      <3>. QED
        BY <2>1, <3>2, <3>3, MovieGoesOn
    <2>. QED
      BY <2>2, <2>3
  <1>4. CASE Movie!GetUniqueIdAndUserId(c)
    <2>1. PICK r : r = [s EXCEPT !.at = "getMovieId", !.review = log.ids + 1, !.user = db.user]
      OBVIOUS
    <2>2. /\ s.at = "getUserId" /\ db' = db /\ log' = [log EXCEPT !.ids = log.ids + 1]
          /\ run' = [run EXCEPT ![c] = r]
      BY <1>1, <1>4, <2>1 DEF Movie!GetUniqueIdAndUserId, Movie!Goto
    <2>3. db.user \in Movie!UserId
      BY <1>1, <2>2 DEF MovieInv, MovieDb, Holding
    <2>4. /\ log.ids + 1 \in Nat /\ log' \in MovieLog /\ log'.requests >= log.requests
          /\ log'.composed = log.composed /\ log'.overlapped = log.overlapped
          /\ log'.toMovie = log.toMovie /\ log'.toUser = log.toUser
      <3>1. log \in MovieLog /\ log.ids + 1 \in Nat
        BY DEF MovieInv, MovieLog
      <3>2. log.requests >= log.requests
        BY <3>1, AmountsAssumption DEF MovieLog
      <3>. QED
        BY <2>2, <3>1, <3>2 DEF MovieLog
    <2>5. /\ s = [at |-> s.at, title |-> s.title, review |-> s.review, user |-> s.user,
                  got |-> s.got]
          /\ s.title \in MovieId /\ s.got \in Seq(Nat)
      BY <2>2, RunFacts
    <2>6. PICK id \in Nat, user \in Movie!UserId : id = log.ids + 1 /\ user = db.user
      BY <2>3, <2>4
    <2>7. r = [at |-> "getMovieId", title |-> s.title, review |-> id, user |-> user, got |-> s.got]
      BY <2>1, <2>5, <2>6
    <2>8. r \in MovieRun
      BY <2>5, <2>7 DEF MovieRun, WithUser
    <2>9. Holding(r)
      BY <2>7 DEF Holding, WithUser, AfterStore, Listing
    <2>. QED
      BY <2>2, <2>4, <2>8, <2>9, MovieMoves
  <1>5. CASE Movie!GetMovieId(c)
    <2>1. s.at = "getMovieId" /\ db' = db /\ log' = log
      BY <1>1, <1>5 DEF Movie!GetMovieId
    <2>2. PICK r : r = [s EXCEPT !.at = "storeReview"]
      OBVIOUS
    <2>3. Movie!Goto(c, r) \/ Movie!End(c)
      BY <1>1, <1>5, <2>2 DEF Movie!GetMovieId
    <2>4. r \in MovieRun /\ Holding(r)
      BY <1>1, <2>1, <2>2, RunFacts DEF MovieRun, Holding, WithUser, AfterStore, Listing
    <2>. QED
      BY <2>1, <2>3, <2>4, MovieGoesOn, MovieEnds
  <1>. QED
    BY <1>2, <1>3, <1>4, <1>5

\* Requests that read a list.
LEMMA MovieReads ==
    ASSUME MovieInv, NEW c \in Client,
           \/ Movie!GetMovieReviews(c) \/ Movie!GetUserReviews(c)
           \/ Movie!ReadPage(c) \/ Movie!ReadMovieInfo(c) \/ Movie!ReadPlot(c)
           \/ Movie!ReadMovieReviews(c) \/ Movie!ReadUserReviews(c) \/ Movie!ReadReviews(c)
    PROVE  MovieInv'
  <1>1. PICK s \in MovieRun : s = run[c] /\ Holding(s)
    BY DEF MovieInv
  <1>2. /\ \A m \in MovieId : /\ db.byMovie[m] \in Seq(Nat) /\ About(db.byMovie[m], m)
                              /\ Lists(db.byMovie[m], log.toMovie[m], log.overlapped)
        /\ \A u \in Movie!UserId : /\ db.byUser[u] \in Seq(Nat) /\ About(db.byUser[u], u)
                                   /\ Lists(db.byUser[u], log.toUser[u], log.overlapped)
    BY DEF MovieInv, MovieDb, MovieLists
  <1>3. CASE Movie!GetMovieReviews(c)
    <2>1. PICK r : r = [s EXCEPT !.at = "uploadMovieReview", !.got = db.byMovie[s.title]]
      OBVIOUS
    <2>2. s.at = "getMovieReviews" /\ Movie!Goto(c, r) /\ db' = db /\ log' = log
      BY <1>1, <1>3, <2>1 DEF Movie!GetMovieReviews
    <2>3. /\ r = [at |-> "uploadMovieReview", title |-> s.title, review |-> s.review,
                  user |-> s.user, got |-> db.byMovie[s.title]]
          /\ s.title \in MovieId /\ s.review \in Nat /\ s.user \in Movie!UserId
          /\ ReviewOf(s) \in Movie!Range(db.reviews)
      <3>1. s.at \in WithUser /\ s.at \in AfterStore
        BY <2>2 DEF WithUser, AfterStore, Listing
      <3>2. /\ s = [at |-> s.at, title |-> s.title, review |-> s.review, user |-> s.user,
                    got |-> s.got]
            /\ s.title \in MovieId /\ s.review \in Nat
        BY <3>1, RunFacts
      <3>3. s.user \in Movie!UserId /\ ReviewOf(s) \in Movie!Range(db.reviews)
        BY <1>1, <3>1 DEF Holding
      <3>4. s.at = "getUserReviews" => ReviewOf(s) \in Movie!Range(log.toMovie[s.title])
        BY <1>1 DEF Holding
      <3>. QED
        BY <2>1, <2>2, <3>2, <3>3, <3>4
    <2>4. r \in MovieRun
      BY <1>2, <2>3 DEF MovieRun, WithUser, AfterStore, Listing
    <2>5. Holding(r)
      BY <1>2, <2>3 DEF Holding, ReviewOf
    <2>. QED
      BY <2>2, <2>4, <2>5, MovieGoesOn
  <1>4. CASE Movie!GetUserReviews(c)
    <2>1. PICK r : r = [s EXCEPT !.at = "uploadUserReview", !.got = db.byUser[s.user]]
      OBVIOUS
    <2>2. s.at = "getUserReviews" /\ Movie!Goto(c, r) /\ db' = db /\ log' = log
      BY <1>1, <1>4, <2>1 DEF Movie!GetUserReviews
    <2>3. /\ r = [at |-> "uploadUserReview", title |-> s.title, review |-> s.review,
                  user |-> s.user, got |-> db.byUser[s.user]]
          /\ s.title \in MovieId /\ s.review \in Nat /\ s.user \in Movie!UserId
          /\ ReviewOf(s) \in Movie!Range(db.reviews)
          /\ ReviewOf(s) \in Movie!Range(log.toMovie[s.title])
      <3>1. s.at \in WithUser /\ s.at \in AfterStore
        BY <2>2 DEF WithUser, AfterStore, Listing
      <3>2. /\ s = [at |-> s.at, title |-> s.title, review |-> s.review, user |-> s.user,
                    got |-> s.got]
            /\ s.title \in MovieId /\ s.review \in Nat
        BY <3>1, RunFacts
      <3>3. s.user \in Movie!UserId /\ ReviewOf(s) \in Movie!Range(db.reviews)
        BY <1>1, <3>1 DEF Holding
      <3>4. s.at = "getUserReviews" => ReviewOf(s) \in Movie!Range(log.toMovie[s.title])
        BY <1>1 DEF Holding
      <3>. QED
        BY <2>1, <2>2, <3>2, <3>3, <3>4
    <2>4. r \in MovieRun
      BY <1>2, <2>3 DEF MovieRun, WithUser, AfterStore, Listing
    <2>5. Holding(r)
      BY <1>2, <2>3 DEF Holding, ReviewOf
    <2>. QED
      BY <2>2, <2>4, <2>5, MovieGoesOn
  <1>5. CASE Movie!ReadPage(c)
    <2>1. PICK m \in MovieId : Movie!Begin(c, [at |-> "readMovieInfo", movie |-> m])
      BY <1>5 DEF Movie!ReadPage
    <2>2. PICK r : r = [at |-> "readMovieInfo", movie |-> m]
      OBVIOUS
    <2>3. r \in MovieRun /\ Holding(r)
      BY <2>2 DEF MovieRun, Holding, WithUser, AfterStore, Listing
    <2>. QED
      BY <2>1, <2>2, <2>3, MovieBegins
  <1>6. CASE Movie!ReadMovieInfo(c) \/ Movie!ReadPlot(c)
    <2>1. s.at \in {"readMovieInfo", "readPlot"} /\ db' = db /\ log' = log
      BY <1>1, <1>6 DEF Movie!ReadMovieInfo, Movie!ReadPlot
    <2>2. PICK q, r : q = [s EXCEPT !.at = "readPlot"] /\ r = [s EXCEPT !.at = "readMovieReviews"]
      OBVIOUS
    <2>3. Movie!Goto(c, q) \/ Movie!Goto(c, r) \/ Movie!End(c)
      BY <1>1, <1>6, <2>2 DEF Movie!ReadMovieInfo, Movie!ReadPlot
    <2>4. q \in MovieRun /\ Holding(q) /\ r \in MovieRun /\ Holding(r)
      BY <2>1, <2>2, RunFacts DEF MovieRun, Holding, WithUser, AfterStore, Listing
    <2>. QED
      BY <2>1, <2>3, <2>4, MovieGoesOn, MovieEnds
  <1>7. CASE Movie!ReadMovieReviews(c)
    <2>1. PICK r : r = [at |-> "readReviews", ids |-> db.byMovie[s.movie], of |-> s.movie]
      OBVIOUS
    <2>2. s.at = "readMovieReviews" /\ Movie!Goto(c, r) /\ db' = db /\ log' = log
      BY <1>1, <1>7, <2>1 DEF Movie!ReadMovieReviews
    <2>3. s.movie \in MovieId
      BY <2>2, RunFacts
    <2>4. r \in MovieRun /\ Holding(r)
      BY <1>2, <2>1, <2>3 DEF MovieRun, Holding, WithUser, AfterStore, Listing
    <2>. QED
      BY <2>2, <2>4, MovieGoesOn
  <1>8. CASE Movie!ReadUserReviews(c)
    <2>1. PICK u \in 1..(IF db.user = Missing THEN 0 ELSE db.user) :
             Movie!Begin(c, [at |-> "readReviews", ids |-> db.byUser[u], of |-> u])
      BY <1>8 DEF Movie!ReadUserReviews
    <2>2. u \in Movie!UserId
      BY <2>1, AmountsAssumption DEF MovieInv, MovieDb, Movie!UserId
    <2>3. PICK r : r = [at |-> "readReviews", ids |-> db.byUser[u], of |-> u]
      OBVIOUS
    <2>4. r \in MovieRun /\ Holding(r)
      BY <1>2, <2>2, <2>3 DEF MovieRun, Holding, WithUser, AfterStore, Listing
    <2>. QED
      BY <2>1, <2>3, <2>4, MovieBegins
  <1>9. CASE Movie!ReadReviews(c)
    BY <1>9, MovieEnds DEF Movie!ReadReviews
  <1>. QED
    BY <1>3, <1>4, <1>5, <1>6, <1>7, <1>8, <1>9

\* Users, titles and pages are registered; nothing happens.
LEMMA MoviePopulates ==
    ASSUME MovieInv,
           \/ Movie!RegisterUser
           \/ \E m \in MovieId : \/ Movie!RegisterMovieId(m) \/ Movie!StoreMovieInfo(m)
                                 \/ Movie!WritePlot(m)
           \/ UNCHANGED Movie!vars
    PROVE  MovieInv'
  <1>1. db \in MovieDb /\ log \in MovieLog /\ log.requests \in Nat
    BY AmountsAssumption DEF MovieInv, MovieLog
  <1>2. /\ run' = run
        /\ db' \in MovieDb /\ db'.reviews = db.reviews
        /\ db'.byMovie = db.byMovie /\ db'.byUser = db.byUser
        /\ db.user # Missing => db'.user # Missing
        /\ log' \in MovieLog
        /\ log'.composed = log.composed /\ log'.overlapped = log.overlapped
        /\ log'.toMovie = log.toMovie /\ log'.toUser = log.toUser
        /\ db'.user # Missing => db'.user <= log'.requests
    <2>1. CASE Movie!RegisterUser
      <3>1. PICK user : user = IF db.user = Missing THEN 1 ELSE db.user + 1
        OBVIOUS
      <3>2. /\ db' = [db EXCEPT !.user = user] /\ run' = run
            /\ log' = [log EXCEPT !.requests = log.requests + 1]
            /\ log.requests < MovieRequests
        BY <2>1, <3>1 DEF Movie!RegisterUser, Movie!Populate
      <3>3. user \in 1..(log.requests + 1) /\ user # Missing
        BY <1>1, <3>1, MissingAssumption DEF MovieInv, MovieDb, Movie!UserId
      <3>4. user \in Movie!UserId /\ log.requests + 1 \in 0..MovieRequests
        BY <1>1, <3>2, <3>3, AmountsAssumption DEF Movie!UserId
      <3>5. /\ db' \in MovieDb /\ db'.user = user /\ db'.reviews = db.reviews
            /\ db'.byMovie = db.byMovie /\ db'.byUser = db.byUser
        BY <1>1, <3>2, <3>4 DEF MovieDb
      <3>6. user <= log.requests + 1
        BY <1>1, <3>3
      <3>. QED
        BY <1>1, <3>2, <3>3, <3>5, <3>6, RequestLogged
    <2>2. ASSUME NEW m \in MovieId,
                 Movie!RegisterMovieId(m) \/ Movie!StoreMovieInfo(m) \/ Movie!WritePlot(m)
          PROVE  /\ run' = run
                 /\ db' \in MovieDb /\ db'.reviews = db.reviews /\ db'.user = db.user
                 /\ db'.byMovie = db.byMovie /\ db'.byUser = db.byUser
                 /\ log' = [log EXCEPT !.requests = log.requests + 1]
                 /\ log.requests < MovieRequests
      <3>1. PICK titles, info, plots :
               /\ titles = db.titles \cup {m} /\ info = db.info \cup {m}
               /\ plots = db.plots \cup {m}
        OBVIOUS
      <3>2. /\ \/ db' = [db EXCEPT !.titles = titles] \/ db' = [db EXCEPT !.info = info]
               \/ db' = [db EXCEPT !.plots = plots]
            /\ run' = run /\ log' = [log EXCEPT !.requests = log.requests + 1]
            /\ log.requests < MovieRequests
        BY <2>2, <3>1 DEF Movie!RegisterMovieId, Movie!StoreMovieInfo, Movie!WritePlot,
                          Movie!Populate
      <3>3. titles \subseteq MovieId /\ info \subseteq MovieId /\ plots \subseteq MovieId
        BY <1>1, <3>1 DEF MovieDb
      <3>. QED
        BY <1>1, <3>2, <3>3 DEF MovieDb
    <2>3. CASE \E m \in MovieId : \/ Movie!RegisterMovieId(m) \/ Movie!StoreMovieInfo(m)
                                  \/ Movie!WritePlot(m)
      <3>1. /\ run' = run
            /\ db' \in MovieDb /\ db'.reviews = db.reviews /\ db'.user = db.user
            /\ db'.byMovie = db.byMovie /\ db'.byUser = db.byUser
            /\ log' = [log EXCEPT !.requests = log.requests + 1]
            /\ log.requests < MovieRequests
        BY <2>2, <2>3
      <3>3. db.user # Missing => db.user <= log.requests + 1
        BY <1>1, MissingAssumption DEF MovieInv, MovieDb, Movie!UserId
      <3>. QED
        BY <1>1, <3>1, <3>3, RequestLogged
    <2>4. CASE UNCHANGED Movie!vars
      BY <1>1, <2>4 DEF Movie!vars, MovieInv
    <2>. QED
      BY <2>1, <2>3, <2>4
  <1>3. ASSUME NEW d \in Client PROVE Holding(run[d])'
    <2>1. PICK s : s = run[d]
      OBVIOUS
    <2>2. Holding(s)'
      BY <1>2, <2>1, HoldingStays DEF MovieInv
    <2>. QED
      BY <1>2, <2>1, <2>2
  <1>4. MovieLists'
    BY <1>2, ListsStay DEF MovieInv
  <1>. QED
    BY <1>2, <1>3, <1>4 DEF MovieInv

-----------------------------------------------------------------------------
LEMMA OneMoreSent ==
    ASSUME NEW S, NEW s \in Seq(S), NEW x \in S
    PROVE  /\ Append(s, x) \in Seq(S) /\ Len(Append(s, x)) = Len(s) + 1 /\ Len(s) \in Nat
           /\ \A i \in 1..Len(s) : Append(s, x)[i] = s[i]
           /\ Append(s, x)[Len(s) + 1] = x
           /\ Movie!Range(Append(s, x)) = Movie!Range(s) \cup {x}
  <1>. DEFINE t == Append(s, x)
  <1>1. /\ t \in Seq(S) /\ Len(t) = Len(s) + 1 /\ Len(s) \in Nat
        /\ DOMAIN s = 1..Len(s) /\ DOMAIN t = 1..(Len(s) + 1)
        /\ \A i \in 1..Len(s) : t[i] = s[i]
        /\ t[Len(s) + 1] = x
    OBVIOUS
  <1>. HIDE DEF t
  <1>2. Movie!Range(t) = Movie!Range(s) \cup {x}
    BY <1>1 DEF Movie!Range
  <1>. QED
    BY <1>1, <1>2 DEF t

\* Hotel bounds its lists alike.
LEMMA AddedFacts ==
    ASSUME NEW S, NEW list \in Seq(S), NEW id \in S
    PROVE  /\ Movie!Bounded(list, id) \in Seq(S)
           /\ Len(Movie!Bounded(list, id)) = (Len(list) - Dropped(list)) + 1
           /\ Len(list) - Dropped(list) \in Nat
           /\ \A k \in 1..(Len(list) - Dropped(list)) :
                 Movie!Bounded(list, id)[k] = list[k + Dropped(list)]
           /\ Movie!Bounded(list, id)[(Len(list) - Dropped(list)) + 1] = id
  <1>1. Movie!Bounded(list, id) = Hotel!Bounded(list, id)
    BY DEF Hotel!Bounded, Movie!Bounded
  <1>2. /\ Hotel!Bounded(list, id) \in Seq(S)
        /\ Len(Hotel!Bounded(list, id)) = (Len(list) - Dropped(list)) + 1
        /\ Len(list) - Dropped(list) \in Nat
        /\ \A k \in 1..(Len(list) - Dropped(list)) :
              Hotel!Bounded(list, id)[k] = list[k + Dropped(list)]
        /\ Hotel!Bounded(list, id)[(Len(list) - Dropped(list)) + 1] = id
    BY BoundedFacts, Zenon
  <1>. QED
    BY <1>1, <1>2, Zenon

\* The list with one more review lists what was sent with it.
LEMMA BoundedLists ==
    ASSUME NEW sent \in Seq(Review), NEW list \in Seq(Nat), NEW r \in Review,
           NEW lost, NEW more, lost \subseteq more, Lists(list, sent, lost)
    PROVE  Lists(Movie!Bounded(list, r.id), Append(sent, r), more)
  <1>0. PICK id \in Nat : id = r.id
    BY DEF Review
  <1>. DEFINE new == Movie!Bounded(list, id)
              d == Dropped(list)
  <1>1. PICK all : all = Append(sent, r)
    OBVIOUS
  <1>2. /\ Len(list) \in Nat /\ Len(sent) \in Nat /\ MaxKept \in Nat \ {0} /\ id \in Nat
        /\ d = (IF Len(list) >= MaxKept THEN 1 ELSE 0)
    BY <1>0, <1>1, AmountsAssumption DEF Dropped
  <1>3. /\ Len(new) = (Len(list) - d) + 1
        /\ Len(list) - d \in Nat
        /\ \A k \in 1..(Len(list) - d) : new[k] = list[k + d]
        /\ new[(Len(list) - d) + 1] = id
    BY <1>0, AddedFacts, Zenon
  <1>. HIDE DEF new, d
  <1>4. /\ Len(all) = Len(sent) + 1
        /\ \A i \in 1..Len(sent) : all[i] = sent[i]
        /\ all[Len(sent) + 1] = r
    BY <1>1, OneMoreSent
  <1>5. ASSUME NEW i \in 1..Len(all), Len(all) - i < MaxKept, all[i].id \notin more
        PROVE  \E k \in 1..Len(new) :
                  new[k] = all[i].id /\ i + (Len(new) - k) <= Len(all)
    <2>1. i \in Nat /\ i >= 1 /\ i <= Len(sent) + 1
      BY <1>2, <1>4
    <2>2. CASE i <= Len(sent)
      <3>1. i \in 1..Len(sent) /\ Len(sent) - i < MaxKept /\ sent[i].id \notin lost
            /\ all[i] = sent[i] /\ Len(sent) + 1 - i < MaxKept
        BY <1>2, <1>4, <1>5, <2>1, <2>2
      <3>2. PICK k \in 1..Len(list) : list[k] = sent[i].id /\ i + (Len(list) - k) <= Len(sent)
        BY <3>1 DEF Lists
      <3>3. PICK n \in Nat, m \in Nat : n = Len(list) /\ m = Len(sent)
        BY <1>2
      <3>4. k \in Nat /\ k >= 1 /\ k <= n /\ i + (n - k) <= m
        BY <3>2, <3>3
      <3>5. k - d \in 1..(n - d) /\ i + (((n - d) + 1) - (k - d)) <= m + 1 /\ d \in {0, 1}
        BY <1>2, <2>1, <3>1, <3>3, <3>4
      <3>6. k - d \in 1..Len(new) /\ (k - d) + d = k
        BY <1>3, <3>3, <3>4, <3>5
      <3>7. new[k - d] = all[i].id
        BY <1>3, <3>1, <3>2, <3>3, <3>5, <3>6
      <3>. QED
        BY <1>3, <1>4, <3>3, <3>5, <3>6, <3>7
    <2>3. CASE i = Len(sent) + 1
      <3>1. PICK n \in Nat : n = Len(list) - d
        BY <1>3
      <3>2. n + 1 \in 1..Len(new) /\ new[n + 1] = all[i].id
        BY <1>0, <1>3, <1>4, <2>3, <3>1
      <3>3. i + (Len(new) - (n + 1)) <= Len(all)
        BY <1>2, <1>3, <1>4, <2>1, <2>3, <3>1
      <3>. QED
        BY <3>2, <3>3
    <2>. QED
      BY <1>2, <2>1, <2>2, <2>3
  <1>6. Lists(new, all, more)
    BY <1>5 DEF Lists
  <1>. QED
    BY <1>0, <1>1, <1>6 DEF new

\* An older copy lists what it did: what is sent now is lost.
LEMMA CopyLists ==
    ASSUME NEW sent \in Seq(Review), NEW list \in Seq(Nat), NEW r \in Review,
           NEW lost, NEW more, lost \subseteq more, r.id \in more, Lists(list, sent, lost)
    PROVE  Lists(list, Append(sent, r), more)
  <1>1. PICK all : all = Append(sent, r)
    OBVIOUS
  <1>2. Len(list) \in Nat /\ Len(sent) \in Nat /\ MaxKept \in Nat \ {0}
    BY AmountsAssumption
  <1>3. /\ Len(all) = Len(sent) + 1
        /\ \A i \in 1..Len(sent) : all[i] = sent[i]
        /\ all[Len(sent) + 1] = r
    BY <1>1, OneMoreSent
  <1>4. ASSUME NEW i \in 1..Len(all), Len(all) - i < MaxKept, all[i].id \notin more
        PROVE  \E k \in 1..Len(list) :
                  list[k] = all[i].id /\ i + (Len(list) - k) <= Len(all)
    <2>1. i # Len(sent) + 1
      BY <1>3, <1>4
    <2>2. i \in 1..Len(sent) /\ Len(sent) - i < MaxKept
      BY <1>2, <1>3, <1>4, <2>1
    <2>3. all[i] = sent[i] /\ sent[i].id \notin lost
      BY <1>3, <1>4, <2>2
    <2>4. PICK k \in 1..Len(list) : list[k] = sent[i].id /\ i + (Len(list) - k) <= Len(sent)
      BY <2>2, <2>3 DEF Lists
    <2>5. i + (Len(list) - k) <= Len(all)
      BY <1>2, <1>3, <2>2, <2>4
    <2>. QED
      BY <2>3, <2>4, <2>5
  <1>. QED
    BY <1>1, <1>4 DEF Lists

LEMMA MoreLost ==
    ASSUME NEW list, NEW sent, NEW lost, NEW more, lost \subseteq more, Lists(list, sent, lost)
    PROVE  Lists(list, sent, more)
  BY DEF Lists

\* With one more id of a stored review, the list is still about x.
LEMMA BoundedAbout ==
    ASSUME NEW list \in Seq(Nat), NEW x, About(list, x), NEW r \in Review,
           r \in Movie!Range(db.reviews), x \in {r.movie, r.user}
    PROVE  /\ Movie!Bounded(list, r.id) \in Seq(Nat)
           /\ About(Movie!Bounded(list, r.id), x)
  <1>1. PICK id \in Nat : id = r.id
    BY DEF Review
  <1>. DEFINE new == Movie!Bounded(list, id)
              d == Dropped(list)
  <1>2. id \in Nat /\ Len(list) \in Nat /\ DOMAIN list = 1..Len(list)
        /\ d \in {0, 1}
    BY DEF Dropped
  <1>3. /\ new \in Seq(Nat) /\ Len(new) = (Len(list) - d) + 1
        /\ Len(list) - d \in Nat
        /\ \A k \in 1..(Len(list) - d) : new[k] = list[k + d]
        /\ new[(Len(list) - d) + 1] = id
    BY <1>1, AddedFacts, Zenon
  <1>. HIDE DEF new, d
  <1>4. ASSUME NEW k \in DOMAIN new
        PROVE  new[k] \in Movie!Range(list) \/ new[k] = id
    <2>1. k \in 1..(Len(list) - d) \/ k = (Len(list) - d) + 1
      BY <1>3
    <2>2. CASE k \in 1..(Len(list) - d)
      <3>1. k + d \in DOMAIN list
        BY <1>2, <2>2
      <3>. QED
        BY <1>3, <2>2, <3>1 DEF Movie!Range
    <2>. QED
      BY <1>3, <2>1, <2>2
  <1>5. About(new, x)
    <2>1. ASSUME NEW i \in Movie!Range(new)
          PROVE  \E q \in Movie!Range(db.reviews) : q.id = i /\ x \in {q.movie, q.user}
      <3>1. i \in Movie!Range(list) \/ i = id
        BY <1>4 DEF Movie!Range
      <3>2. CASE i \in Movie!Range(list)
        BY <3>2 DEF About
      <3>. QED
        BY <1>1, <3>1, <3>2
    <2>. QED
      BY <2>1 DEF About
  <1>. QED
    BY <1>1, <1>3, <1>5 DEF new

\* The review is stored.
LEMMA ReviewStored ==
    ASSUME MovieInv, NEW c \in Client, Movie!StoreReview(c)
    PROVE  MovieInv'
  <1>1. PICK s \in MovieRun : s = run[c] /\ Holding(s)
    BY DEF MovieInv
  <1>2. PICK r, q : r = [s EXCEPT !.at = "getMovieReviews"] /\ q = ReviewOf(s)
    OBVIOUS
  <1>3. PICK reviews : reviews = Append(db.reviews, q)
    OBVIOUS
  <1>4. /\ s.at = "storeReview" /\ log' = log
        /\ run' = [run EXCEPT ![c] = r] /\ db' = [db EXCEPT !.reviews = reviews]
    BY <1>1, <1>2, <1>3 DEF Movie!StoreReview, Movie!Goto, Movie!Record, ReviewOf
  <1>5. /\ s = [at |-> s.at, title |-> s.title, review |-> s.review, user |-> s.user,
                got |-> s.got]
        /\ s.title \in MovieId /\ s.review \in Nat /\ s.got \in Seq(Nat)
        /\ s.user \in Movie!UserId
    <2>1. s.at \in WithUser
      BY <1>4 DEF WithUser
    <2>. QED
      BY <1>1, <2>1, RunFacts DEF Holding
  <1>6. q \in Review
    BY <1>2, <1>5 DEF ReviewOf, Review
  <1>7. /\ db' \in MovieDb /\ db'.reviews = reviews /\ db'.user = db.user
        /\ db'.byMovie = db.byMovie /\ db'.byUser = db.byUser
        /\ Movie!Range(reviews) = Movie!Range(db.reviews) \cup {q}
    <2>1. db \in MovieDb /\ db.reviews \in Seq(Review)
      BY DEF MovieInv, MovieDb
    <2>2. reviews \in Seq(Review) /\ Movie!Range(reviews) = Movie!Range(db.reviews) \cup {q}
      BY <1>3, <1>6, <2>1, OneMoreSent
    <2>. QED
      BY <1>4, <2>1, <2>2 DEF MovieDb
  <1>8. /\ r = [at |-> "getMovieReviews", title |-> s.title, review |-> s.review,
                user |-> s.user, got |-> s.got]
        /\ r \in MovieRun
    <2>1. r = [at |-> "getMovieReviews", title |-> s.title, review |-> s.review,
               user |-> s.user, got |-> s.got]
      BY <1>2, <1>5
    <2>. QED
      BY <1>5, <2>1 DEF MovieRun, WithUser, AfterStore
  <1>9. ReviewOf(r) = q
    BY <1>2, <1>8 DEF ReviewOf
  <1>10. Holding(r)'
    BY <1>5, <1>7, <1>8, <1>9 DEF Holding
  <1>11. /\ run' \in [Client -> MovieRun] /\ run'[c] = r
         /\ \A d \in Client \ {c} : run'[d] = run[d]
    BY <1>4, <1>8 DEF MovieInv
  <1>12. ASSUME NEW d \in Client PROVE Holding(run[d])'
    <2>1. PICK t : t = run'[d]
      OBVIOUS
    <2>2. Holding(t)'
      <3>1. CASE d = c
        BY <1>10, <1>11, <2>1, <3>1
      <3>2. CASE d # c
        <4>1. Holding(t)
          BY <1>11, <2>1, <3>2 DEF MovieInv
        <4>. QED
          BY <1>4, <1>7, <4>1, HoldingStays
      <3>. QED
        BY <3>1, <3>2
    <2>. QED
      BY <2>1, <2>2
  <1>13. MovieLists'
    BY <1>4, <1>7, ListsStay DEF MovieInv
  <1>. QED
    BY <1>4, <1>7, <1>11, <1>12, <1>13 DEF MovieInv

\* What runs and lists hold when a list is written.
LEMMA HoldingAfter ==
    ASSUME NEW r, Holding(r), db'.reviews = db.reviews, db'.user = db.user,
           r.at = "uploadMovieReview" => Lists(r.got, log'.toMovie[r.title], log'.overlapped),
           r.at = "uploadUserReview" => Lists(r.got, log'.toUser[r.user], log'.overlapped),
           r.at \in {"getUserReviews", "uploadUserReview"} =>
              ReviewOf(r) \in Movie!Range(log'.toMovie[r.title])
    PROVE  Holding(r)'
  <1>1. \A list, x : About(list, x) => About(list, x)'
    BY DEF About
  <1>2. \A list, sent, lost : Lists(list, sent, lost)' = Lists(list, sent, lost)
    BY DEF Lists
  <1>. QED
    BY <1>1, <1>2 DEF Holding, ReviewOf

LEMMA ListsAfter ==
    ASSUME db'.reviews = db.reviews,
           \A m \in MovieId : \E list :
              /\ list = db'.byMovie[m] /\ About(list, m)
              /\ Lists(list, log'.toMovie[m], log'.overlapped),
           \A u \in Movie!UserId : \E list :
              /\ list = db'.byUser[u] /\ About(list, u)
              /\ Lists(list, log'.toUser[u], log'.overlapped),
           \A r \in log'.composed :
              r \in Movie!Range(log'.toMovie[r.movie]) /\ r \in Movie!Range(log'.toUser[r.user])
    PROVE  MovieLists'
  <1>1. ASSUME NEW m \in MovieId
        PROVE  (About(db.byMovie[m], m) /\ Lists(db.byMovie[m], log.toMovie[m], log.overlapped))'
    <2>1. PICK list : /\ list = db'.byMovie[m] /\ About(list, m)
                      /\ Lists(list, log'.toMovie[m], log'.overlapped)
      OBVIOUS
    <2>. QED
      BY <2>1 DEF About, Lists
  <1>2. ASSUME NEW u \in Movie!UserId
        PROVE  (About(db.byUser[u], u) /\ Lists(db.byUser[u], log.toUser[u], log.overlapped))'
    <2>1. PICK list : /\ list = db'.byUser[u] /\ About(list, u)
                      /\ Lists(list, log'.toUser[u], log'.overlapped)
      OBVIOUS
    <2>. QED
      BY <2>1 DEF About, Lists
  <1>. QED
    BY <1>1, <1>2 DEF MovieLists

\* What a run of c that uploads knows of its review.
LEMMA Uploading ==
    ASSUME MovieInv, NEW c \in Client, NEW s, s = run[c], s.at \in Listing, NEW q, q = ReviewOf(s)
    PROVE  /\ s \in MovieRun /\ Holding(s)
           /\ s = [at |-> s.at, title |-> s.title, review |-> s.review, user |-> s.user,
                   got |-> s.got]
           /\ s.title \in MovieId /\ s.review \in Nat /\ s.user \in Movie!UserId
           /\ s.got \in Seq(Nat)
           /\ q \in Review /\ q.id = s.review /\ q.movie = s.title /\ q.user = s.user
           /\ q \in Movie!Range(db.reviews) /\ q = Movie!Record(c)
  <1>1. s \in MovieRun /\ Holding(s)
    BY DEF MovieInv
  <1>2. s.at \in WithUser /\ s.at \in AfterStore
    BY DEF WithUser, AfterStore
  <1>3. /\ s = [at |-> s.at, title |-> s.title, review |-> s.review, user |-> s.user,
                got |-> s.got]
        /\ s.title \in MovieId /\ s.review \in Nat /\ s.got \in Seq(Nat)
    BY <1>1, <1>2, RunFacts
  <1>4. s.user \in Movie!UserId /\ q \in Movie!Range(db.reviews)
    BY <1>1, <1>2 DEF Holding
  <1>5. /\ q \in Review /\ q.id = s.review /\ q.movie = s.title /\ q.user = s.user
        /\ q = Movie!Record(c)
    BY <1>3, <1>4 DEF ReviewOf, Review, Movie!Record
  <1>. QED
    BY <1>1, <1>3, <1>4, <1>5

\* What is marked when c writes a list.
LEMMA MarkedReviews ==
    ASSUME MovieInv, NEW c \in Client, NEW s, s = run[c], s.review \in Nat,
           NEW lost, lost = Movie!Marked(c)
    PROVE  /\ log.overlapped \subseteq lost /\ lost \subseteq Nat
           /\ \A d \in Client \ {c} :
                 /\ run[d].at = s.at
                 /\ IF s.at = "uploadMovieReview" THEN run[d].title = s.title
                    ELSE run[d].user = s.user
                 => s.review \in lost
  <1>1. log.overlapped \subseteq Nat
    BY DEF MovieInv, MovieLog
  <1>. QED
    BY <1>1 DEF Movie!Marked, Movie!Stale

\* The review is listed under its movie.
LEMMA MovieListed ==
    ASSUME MovieInv, NEW c \in Client, Movie!UploadMovieReview(c)
    PROVE  MovieInv'
  <1>1. PICK s, q, lost : s = run[c] /\ q = ReviewOf(s) /\ lost = Movie!Marked(c)
    OBVIOUS
  <1>2. PICK m, new, all : /\ m = s.title /\ new = Movie!Bounded(s.got, q.id)
                           /\ all = Append(log.toMovie[m], q)
    OBVIOUS
  <1>3. PICK r : r = [s EXCEPT !.at = "getUserReviews"]
    OBVIOUS
  <1>4. s.at = "uploadMovieReview" /\ s.at \in Listing
    BY <1>1 DEF Movie!UploadMovieReview, Listing
  <1>5. /\ s \in MovieRun /\ Holding(s)
        /\ s = [at |-> s.at, title |-> s.title, review |-> s.review, user |-> s.user,
                got |-> s.got]
        /\ m \in MovieId /\ s.review \in Nat /\ s.user \in Movie!UserId /\ s.got \in Seq(Nat)
        /\ q \in Review /\ q.id = s.review /\ q.movie = m /\ q.user = s.user
        /\ q \in Movie!Range(db.reviews) /\ q = Movie!Record(c)
    BY <1>1, <1>2, <1>4, Uploading
  <1>6. /\ db' = [db EXCEPT !.byMovie = [db.byMovie EXCEPT ![m] = new]]
        /\ run' = [run EXCEPT ![c] = r]
        /\ log' = [log EXCEPT !.overlapped = lost, !.toMovie = [log.toMovie EXCEPT ![m] = all]]
    BY <1>1, <1>2, <1>3, <1>5 DEF Movie!UploadMovieReview, Movie!Goto
  <1>7. /\ log.overlapped \subseteq lost /\ lost \subseteq Nat
        /\ \A d \in Client \ {c} :
              run[d].at = "uploadMovieReview" /\ run[d].title = m => q.id \in lost
    BY <1>1, <1>2, <1>4, <1>5, MarkedReviews
  <1>8. /\ db \in MovieDb /\ run \in [Client -> MovieRun] /\ log \in MovieLog
        /\ log.toMovie[m] \in Seq(Review)
    BY <1>5 DEF MovieInv, MovieLog
  <1>9. About(s.got, m) /\ Lists(s.got, log.toMovie[m], log.overlapped)
    BY <1>2, <1>4, <1>5 DEF Holding
  <1>10. new \in Seq(Nat) /\ About(new, m)
    BY <1>2, <1>5, <1>9, BoundedAbout
  <1>11. Lists(new, all, lost)
    BY <1>2, <1>5, <1>7, <1>8, <1>9, BoundedLists
  <1>12. all \in Seq(Review) /\ Movie!Range(all) = Movie!Range(log.toMovie[m]) \cup {q}
    BY <1>2, <1>5, <1>8, OneMoreSent
  <1>13. /\ db' \in MovieDb /\ db'.reviews = db.reviews /\ db'.user = db.user
         /\ db'.byUser = db.byUser /\ db'.byMovie[m] = new
         /\ \A n \in MovieId \ {m} : db'.byMovie[n] = db.byMovie[n]
    BY <1>5, <1>6, <1>8, <1>10 DEF MovieDb
  <1>14. /\ log' \in MovieLog /\ log'.overlapped = lost /\ log'.requests = log.requests
         /\ log'.composed = log.composed /\ log'.toUser = log.toUser
         /\ log'.toMovie[m] = all
         /\ \A n \in MovieId \ {m} : log'.toMovie[n] = log.toMovie[n]
    BY <1>5, <1>6, <1>7, <1>8, <1>12 DEF MovieLog
  <1>15. /\ r = [at |-> "getUserReviews", title |-> m, review |-> s.review,
                 user |-> s.user, got |-> s.got]
         /\ r \in MovieRun
    <2>1. r = [at |-> "getUserReviews", title |-> m, review |-> s.review, user |-> s.user,
               got |-> s.got]
      BY <1>2, <1>3, <1>5
    <2>. QED
      BY <1>5, <2>1 DEF MovieRun, WithUser, AfterStore, Listing
  <1>16. /\ run' \in [Client -> MovieRun] /\ run'[c] = r
         /\ \A d \in Client \ {c} : run'[d] = run[d]
    BY <1>6, <1>8, <1>15
  <1>17. \A n \in MovieId : Movie!Range(log.toMovie[n]) \subseteq Movie!Range(log'.toMovie[n])
    BY <1>12, <1>14
  <1>18. ASSUME NEW d \in Client PROVE Holding(run[d])'
    <2>1. PICK t : t = run'[d]
      OBVIOUS
    <2>2. Holding(t)'
      <3>1. CASE d = c
        <4>1. t = r /\ ReviewOf(t) = q
          BY <1>1, <1>2, <1>15, <1>16, <2>1, <3>1 DEF ReviewOf
        <4>. QED
          BY <1>5, <1>12, <1>13, <1>14, <1>15, <4>1 DEF Holding
      <3>2. CASE d # c
        <4>1. t = run[d] /\ t \in MovieRun /\ Holding(t)
          BY <1>8, <1>16, <2>1, <3>2 DEF MovieInv
        <4>2. ASSUME t.at = "uploadMovieReview"
              PROVE  Lists(t.got, log'.toMovie[t.title], lost)
          <5>1. Lists(t.got, log.toMovie[t.title], log.overlapped)
            BY <4>1, <4>2 DEF Holding
          <5>2. t.title \in MovieId /\ t.got \in Seq(Nat)
            BY <4>1, <4>2, RunFacts DEF WithUser, AfterStore, Listing
          <5>3. CASE t.title = m
            <6>1. q.id \in lost
              BY <1>7, <3>2, <4>1, <4>2, <5>3
            <6>. QED
              BY <1>2, <1>5, <1>7, <1>8, <1>14, <5>1, <5>2, <5>3, <6>1, CopyLists
          <5>4. CASE t.title # m
            BY <1>7, <1>14, <5>1, <5>2, <5>4, MoreLost
          <5>. QED
            BY <5>3, <5>4
        <4>3. t.at = "uploadUserReview" => Lists(t.got, log'.toUser[t.user], lost)
          BY <1>7, <1>14, <4>1, MoreLost DEF Holding
        <4>4. t.at \in {"getUserReviews", "uploadUserReview"} =>
                 ReviewOf(t) \in Movie!Range(log'.toMovie[t.title])
          BY <1>17, <4>1, RunFacts DEF Holding, WithUser, AfterStore, Listing
        <4>. QED
          BY <1>13, <1>14, <4>1, <4>2, <4>3, <4>4, HoldingAfter
      <3>. QED
        BY <3>1, <3>2
    <2>. QED
      BY <2>1, <2>2
  <1>19. MovieLists
    BY DEF MovieInv
  <1>20. MovieLists'
    <2>1. ASSUME NEW n \in MovieId
          PROVE  \E list : /\ list = db'.byMovie[n] /\ About(list, n)
                           /\ Lists(list, log'.toMovie[n], log'.overlapped)
      <3>1. CASE n = m
        BY <1>10, <1>11, <1>13, <1>14, <3>1
      <3>2. CASE n # m
        <4>1. About(db.byMovie[n], n) /\ Lists(db.byMovie[n], log.toMovie[n], log.overlapped)
          BY <1>19 DEF MovieLists
        <4>2. Lists(db.byMovie[n], log.toMovie[n], lost)
          BY <1>7, <4>1, MoreLost
        <4>. QED
          BY <1>13, <1>14, <3>2, <4>1, <4>2
      <3>. QED
        BY <3>1, <3>2
    <2>2. ASSUME NEW u \in Movie!UserId
          PROVE  \E list : /\ list = db'.byUser[u] /\ About(list, u)
                           /\ Lists(list, log'.toUser[u], log'.overlapped)
      <3>1. About(db.byUser[u], u) /\ Lists(db.byUser[u], log.toUser[u], log.overlapped)
        BY <1>19 DEF MovieLists
      <3>2. Lists(db.byUser[u], log.toUser[u], lost)
        BY <1>7, <3>1, MoreLost
      <3>. QED
        BY <1>13, <1>14, <3>1, <3>2
    <2>3. ASSUME NEW x \in log'.composed
          PROVE  /\ x \in Movie!Range(log'.toMovie[x.movie])
                 /\ x \in Movie!Range(log'.toUser[x.user])
      <3>1. /\ x \in Movie!Range(log.toMovie[x.movie]) /\ x \in Movie!Range(log.toUser[x.user])
            /\ x \in Review
        BY <1>8, <1>14, <1>19, <2>3 DEF MovieLists, MovieLog
      <3>2. x.movie \in MovieId
        BY <3>1 DEF Review
      <3>. QED
        BY <1>14, <1>17, <3>1, <3>2
    <2>. QED
      BY <1>13, <2>1, <2>2, <2>3, ListsAfter
  <1>21. db'.user # Missing => db'.user <= log'.requests
    BY <1>13, <1>14 DEF MovieInv
  <1>. QED
    BY <1>13, <1>14, <1>16, <1>18, <1>20, <1>21 DEF MovieInv

\* The review is listed under its user: its Compose returns true.
LEMMA UserListed ==
    ASSUME MovieInv, NEW c \in Client, Movie!UploadUserReview(c)
    PROVE  MovieInv'
  <1>1. PICK s, q, lost : s = run[c] /\ q = ReviewOf(s) /\ lost = Movie!Marked(c)
    OBVIOUS
  <1>2. PICK u, new, all : /\ u = s.user /\ new = Movie!Bounded(s.got, q.id)
                           /\ all = Append(log.toUser[u], q)
    OBVIOUS
  <1>3. PICK r, composed : r = Movie!Idle /\ composed = log.composed \cup {q}
    OBVIOUS
  <1>4. s.at = "uploadUserReview" /\ s.at \in Listing
    BY <1>1 DEF Movie!UploadUserReview, Listing
  <1>5. /\ s \in MovieRun /\ Holding(s)
        /\ s.title \in MovieId /\ s.review \in Nat /\ u \in Movie!UserId /\ s.got \in Seq(Nat)
        /\ q \in Review /\ q.id = s.review /\ q.movie = s.title /\ q.user = u
        /\ q \in Movie!Range(db.reviews) /\ q = Movie!Record(c)
    BY <1>1, <1>2, <1>4, Uploading
  <1>6. /\ db' = [db EXCEPT !.byUser = [db.byUser EXCEPT ![u] = new]]
        /\ run' = [run EXCEPT ![c] = r]
        /\ log' = [log EXCEPT !.composed = composed, !.overlapped = lost,
                              !.toUser = [log.toUser EXCEPT ![u] = all]]
    BY <1>1, <1>2, <1>3, <1>5 DEF Movie!UploadUserReview, Movie!End, Movie!Goto
  <1>7. /\ log.overlapped \subseteq lost /\ lost \subseteq Nat
        /\ \A d \in Client \ {c} :
              run[d].at = "uploadUserReview" /\ run[d].user = u => q.id \in lost
    BY <1>1, <1>2, <1>4, <1>5, MarkedReviews
  <1>8. /\ db \in MovieDb /\ run \in [Client -> MovieRun] /\ log \in MovieLog
        /\ log.toUser[u] \in Seq(Review)
    BY <1>5 DEF MovieInv, MovieLog
  <1>9. About(s.got, u) /\ Lists(s.got, log.toUser[u], log.overlapped)
    BY <1>2, <1>4, <1>5 DEF Holding
  <1>10. new \in Seq(Nat) /\ About(new, u)
    BY <1>2, <1>5, <1>9, BoundedAbout
  <1>11. Lists(new, all, lost)
    BY <1>2, <1>5, <1>7, <1>8, <1>9, BoundedLists
  <1>12. all \in Seq(Review) /\ Movie!Range(all) = Movie!Range(log.toUser[u]) \cup {q}
    BY <1>2, <1>5, <1>8, OneMoreSent
  <1>13. /\ db' \in MovieDb /\ db'.reviews = db.reviews /\ db'.user = db.user
         /\ db'.byMovie = db.byMovie /\ db'.byUser[u] = new
         /\ \A n \in Movie!UserId \ {u} : db'.byUser[n] = db.byUser[n]
    BY <1>5, <1>6, <1>8, <1>10 DEF MovieDb
  <1>14. /\ log' \in MovieLog /\ log'.overlapped = lost /\ log'.requests = log.requests
         /\ log'.composed = composed /\ log'.toMovie = log.toMovie
         /\ log'.toUser[u] = all
         /\ \A n \in Movie!UserId \ {u} : log'.toUser[n] = log.toUser[n]
    BY <1>3, <1>5, <1>6, <1>7, <1>8, <1>12 DEF MovieLog
  <1>15. r \in MovieRun /\ r.at = "idle"
    BY <1>3 DEF MovieRun, Movie!Idle
  <1>16. /\ run' \in [Client -> MovieRun] /\ run'[c] = r
         /\ \A d \in Client \ {c} : run'[d] = run[d]
    BY <1>6, <1>8, <1>15
  <1>17. \A n \in Movie!UserId : Movie!Range(log.toUser[n]) \subseteq Movie!Range(log'.toUser[n])
    BY <1>12, <1>14
  <1>18. ASSUME NEW d \in Client PROVE Holding(run[d])'
    <2>1. PICK t : t = run'[d]
      OBVIOUS
    <2>2. Holding(t)'
      <3>1. CASE d = c
        BY <1>15, <1>16, <2>1, <3>1 DEF Holding, WithUser, AfterStore, Listing
      <3>2. CASE d # c
        <4>1. t = run[d] /\ t \in MovieRun /\ Holding(t)
          BY <1>8, <1>16, <2>1, <3>2 DEF MovieInv
        <4>2. ASSUME t.at = "uploadUserReview"
              PROVE  Lists(t.got, log'.toUser[t.user], lost)
          <5>1. Lists(t.got, log.toUser[t.user], log.overlapped)
            BY <4>1, <4>2 DEF Holding
          <5>2. t.user \in Movie!UserId /\ t.got \in Seq(Nat)
            BY <4>1, <4>2, RunFacts DEF Holding, WithUser, AfterStore, Listing
          <5>3. CASE t.user = u
            <6>1. q.id \in lost
              BY <1>7, <3>2, <4>1, <4>2, <5>3
            <6>. QED
              BY <1>2, <1>5, <1>7, <1>8, <1>14, <5>1, <5>2, <5>3, <6>1, CopyLists
          <5>4. CASE t.user # u
            BY <1>7, <1>14, <5>1, <5>2, <5>4, MoreLost
          <5>. QED
            BY <5>3, <5>4
        <4>3. t.at = "uploadMovieReview" => Lists(t.got, log'.toMovie[t.title], lost)
          BY <1>7, <1>14, <4>1, MoreLost DEF Holding
        <4>4. t.at \in {"getUserReviews", "uploadUserReview"} =>
                 ReviewOf(t) \in Movie!Range(log'.toMovie[t.title])
          BY <1>14, <4>1 DEF Holding
        <4>. QED
          BY <1>13, <1>14, <4>1, <4>2, <4>3, <4>4, HoldingAfter
      <3>. QED
        BY <3>1, <3>2
    <2>. QED
      BY <2>1, <2>2
  <1>19. MovieLists
    BY DEF MovieInv
  <1>20. MovieLists'
    <2>1. ASSUME NEW n \in Movie!UserId
          PROVE  \E list : /\ list = db'.byUser[n] /\ About(list, n)
                           /\ Lists(list, log'.toUser[n], log'.overlapped)
      <3>1. CASE n = u
        BY <1>10, <1>11, <1>13, <1>14, <3>1
      <3>2. CASE n # u
        <4>1. About(db.byUser[n], n) /\ Lists(db.byUser[n], log.toUser[n], log.overlapped)
          BY <1>19 DEF MovieLists
        <4>2. Lists(db.byUser[n], log.toUser[n], lost)
          BY <1>7, <4>1, MoreLost
        <4>. QED
          BY <1>13, <1>14, <3>2, <4>1, <4>2
      <3>. QED
        BY <3>1, <3>2
    <2>2. ASSUME NEW m \in MovieId
          PROVE  \E list : /\ list = db'.byMovie[m] /\ About(list, m)
                           /\ Lists(list, log'.toMovie[m], log'.overlapped)
      <3>1. About(db.byMovie[m], m) /\ Lists(db.byMovie[m], log.toMovie[m], log.overlapped)
        BY <1>19 DEF MovieLists
      <3>2. Lists(db.byMovie[m], log.toMovie[m], lost)
        BY <1>7, <3>1, MoreLost
      <3>. QED
        BY <1>13, <1>14, <3>1, <3>2
    <2>3. ASSUME NEW x \in log'.composed
          PROVE  /\ x \in Movie!Range(log'.toMovie[x.movie])
                 /\ x \in Movie!Range(log'.toUser[x.user])
      <3>1. CASE x \in log.composed
        <4>1. /\ x \in Movie!Range(log.toMovie[x.movie])
              /\ x \in Movie!Range(log.toUser[x.user]) /\ x \in Review
          BY <1>8, <1>19, <3>1 DEF MovieLists, MovieLog
        <4>2. x.user \in Movie!UserId
          BY <4>1 DEF Review
        <4>. QED
          BY <1>14, <1>17, <4>1, <4>2
      <3>2. CASE x = q
        <4>1. q \in Movie!Range(log.toMovie[q.movie])
          BY <1>1, <1>4, <1>5 DEF Holding
        <4>. QED
          BY <1>5, <1>12, <1>14, <3>2, <4>1
      <3>. QED
        BY <1>3, <1>14, <2>3, <3>1, <3>2
    <2>. QED
      BY <1>13, <2>1, <2>2, <2>3, ListsAfter
  <1>21. db'.user # Missing => db'.user <= log'.requests
    BY <1>13, <1>14 DEF MovieInv
  <1>. QED
    BY <1>13, <1>14, <1>16, <1>18, <1>20, <1>21 DEF MovieInv

LEMMA MovieNext == MovieInv /\ [Movie!Next]_(Movie!vars) => MovieInv'
  <1>1. ASSUME MovieInv, Movie!Next PROVE MovieInv'
    <2>1. ASSUME NEW c \in Client, Movie!Step(c) PROVE MovieInv'
      BY <1>1, <2>1, MovieComposes, MovieReads, ReviewStored, MovieListed, UserListed
         DEF Movie!Step
    <2>2. ASSUME \/ Movie!RegisterUser
                 \/ \E m \in MovieId : \/ Movie!RegisterMovieId(m) \/ Movie!StoreMovieInfo(m)
                                       \/ Movie!WritePlot(m)
          PROVE  MovieInv'
      BY <1>1, <2>2, MoviePopulates
    <2>. QED
      BY <1>1, <2>1, <2>2 DEF Movie!Next
  <1>2. ASSUME MovieInv, UNCHANGED Movie!vars PROVE MovieInv'
    <2>1. db' = db /\ run' = run /\ log' = log
      BY <1>2 DEF Movie!vars
    <2>2. MovieLists'
      BY <1>2, <2>1, ListsStay DEF MovieInv
    <2>3. ASSUME NEW d \in Client PROVE Holding(run[d])'
      <3>1. PICK t : t = run[d]
        OBVIOUS
      <3>2. Holding(t)
        BY <1>2, <3>1 DEF MovieInv
      <3>3. Holding(t)'
        BY <2>1, <3>2, HoldingStays
      <3>. QED
        BY <2>1, <3>1, <3>3
    <2>. QED
      BY <1>2, <2>1, <2>2, <2>3 DEF MovieInv
  <1>. QED
    BY <1>1, <1>2

LEMMA MovieShows == MovieInv => Movie!ReviewsShownAreStored /\ Movie!ComposedIsListed
  <1>. SUFFICES ASSUME MovieInv
                PROVE  Movie!ReviewsShownAreStored /\ Movie!ComposedIsListed
    OBVIOUS
  <1>1. Movie!ReviewsShownAreStored
    BY DEF MovieInv, Holding, About, Movie!ReviewsShownAreStored
  <1>2. ASSUME NEW list, NEW sent \in Seq(Review), Lists(list, sent, log.overlapped),
               list \in Seq(Nat), NEW r, r.id \notin log.overlapped, NEW i \in DOMAIN sent,
               sent[i] = r, Len(sent) - i < MaxKept
        PROVE  r.id \in Movie!Range(list)
    <2>1. i \in 1..Len(sent) /\ DOMAIN list = 1..Len(list)
      BY <1>2
    <2>2. PICK k \in 1..Len(list) : list[k] = r.id
      BY <1>2, <2>1 DEF Lists
    <2>. QED
      BY <2>1, <2>2 DEF Movie!Range
  <1>3. ASSUME NEW r \in log.composed
        PROVE  /\ r.movie \in MovieId /\ r.user \in Movie!UserId
               /\ db.byMovie[r.movie] \in Seq(Nat) /\ log.toMovie[r.movie] \in Seq(Review)
               /\ db.byUser[r.user] \in Seq(Nat) /\ log.toUser[r.user] \in Seq(Review)
               /\ r \in Movie!Range(log.toMovie[r.movie])
               /\ r \in Movie!Range(log.toUser[r.user])
               /\ Lists(db.byMovie[r.movie], log.toMovie[r.movie], log.overlapped)
               /\ Lists(db.byUser[r.user], log.toUser[r.user], log.overlapped)
    <2>1. r \in Review /\ db \in MovieDb /\ log \in MovieLog
      BY DEF MovieInv, MovieLog
    <2>2. r.movie \in MovieId /\ r.user \in Movie!UserId
      BY <2>1 DEF Review
    <2>3. /\ db.byMovie[r.movie] \in Seq(Nat) /\ log.toMovie[r.movie] \in Seq(Review)
          /\ db.byUser[r.user] \in Seq(Nat) /\ log.toUser[r.user] \in Seq(Review)
      BY <2>1, <2>2 DEF MovieDb, MovieLog
    <2>. QED
      BY <2>2, <2>3 DEF MovieInv, MovieLists
  <1>4. Movie!ComposedIsListed
    BY <1>2, <1>3 DEF Movie!ComposedIsListed
  <1>. QED
    BY <1>1, <1>4

(***************************************************************************)
(* ComposeReview, UploadMovieReview, UploadUserReview and ReadReviews of   *)
(* the movie application: a review on a list is stored, and a composed one *)
(* stays on both its lists until MaxKept younger ones came, however runs   *)
(* interleave; one that another run's older copy of a list may overwrite   *)
(* is set apart (ComposedIsListed).                                        *)
(***************************************************************************)
THEOREM ReviewsKeepTheirWord == Spec => [](ReviewsShownAreStored /\ ComposedIsListed)
  <1>. DEFINE Part == part = "movie" => MovieInv
  <1>1. Init => Part
    BY MovieStarts DEF Init
  <1>2. Part /\ [Next]_vars => Part'
    <2>1. ASSUME Part, Next, part' = "movie" PROVE MovieInv'
      <3>1. part = "movie" /\ Movie!Next
        BY <2>1 DEF Next, AroundStores
      <3>. QED
        BY <2>1, <3>1, MovieNext
    <2>2. ASSUME Part, UNCHANGED vars, part' = "movie" PROVE MovieInv'
      <3>1. part = "movie" /\ UNCHANGED Movie!vars
        BY <2>2 DEF vars, Movie!vars, storeVars
      <3>. QED
        BY <2>2, <3>1, MovieNext
    <2>. QED
      BY <2>1, <2>2
  <1>3. Part => ReviewsShownAreStored /\ ComposedIsListed
    BY MovieShows DEF ReviewsShownAreStored, ComposedIsListed
  <1>. HIDE DEF Part
  <1>. QED
    BY <1>1, <1>2, <1>3, PTL DEF Spec
=============================================================================
