-------------------- MODULE BatchedInvalidation_proofs --------------------
(***************************************************************************)
(* For every value of the constants of BatchedInvalidation.  With ticks at *)
(* any time: no held line drops out of the dependency index, and the types *)
(* are right.  With ticks between requests and one call to invalidate: the *)
(* delay does no harm.                                                     *)
(***************************************************************************)
EXTENDS BatchedInvalidation, CMState_proofs, SequenceTheorems, WellFoundedInduction,
        FiniteSetTheorems, TLAPS

\* The dependencies Process still has to put e under.
Owed(e) == IF Storing(e) THEN process.todo ELSE {}

\* Registered, with what Process owes told dependency by dependency.
Indexed ==
    \A e \in Entry : line[e].held =>
        \/ Dropping(e)
        \/ \A d \in line[e].used \ Owed(e) : e \in deps[d]

\* What Process carries from its Get to its Add covers what the map has: the
\* ticker goroutine only ever takes away.
Carried ==
    process.at \in {"mark", "add"} =>
        /\ deps[process.dep] \subseteq process.callers
        /\ process.at = "add" => process.entry \in process.callers

Shapes ==
    /\ serving \in [Rid -> Served \cup {None}]
    /\ deps \in [Dep -> SUBSET Entry]
    /\ line \in [Entry -> [held : BOOLEAN, used : SUBSET Dep, stale : SUBSET Dep]]
    /\ \/ process \in Reading
       \/ process.at = "write" /\ process.next \in Reading
       \/ process \in [at : {"buffer"}, calls : SUBSET Called]
       \/ process \in [at : {"get"}, entry : Entry, todo : SUBSET Called]
       \/ process \in [at : {"mark", "add"}, entry : Entry, todo : SUBSET Called,
                       dep : Called, callers : SUBSET Entry]
    /\ ticker.at = "write" => ticker.next.at = "append"

IndexInv == Shapes /\ Carried /\ Indexed

-----------------------------------------------------------------------------
LEMMA IndexInit == Init => IndexInv
  <1>. SUFFICES ASSUME Init PROVE IndexInv
    OBVIOUS
  <1>1. Dropped \in [held : BOOLEAN, used : SUBSET Dep, stale : SUBSET Dep]
    BY DEF Dropped
  <1>2. Shapes
    BY <1>1 DEF Init, Shapes, NoDeps, Reading, Idle, Waiting
  <1>3. Carried /\ Indexed
    BY DEF Init, Carried, Indexed, Idle, Dropped
  <1>. QED
    BY <1>2, <1>3 DEF IndexInv

\* A step that leaves the index and the lines alone, in which Process takes up
\* no storing and the ticker goroutine does not leave its pops.
LEMMA Elsewhere ==
    ASSUME IndexInv, Shapes', UNCHANGED <<deps, line>>,
           process' = process \/ process.at \notin {"get", "mark", "add"},
           process' = process \/ process'.at \notin {"get", "mark", "add"},
           ticker' = ticker \/ ticker.at # "pop"
    PROVE  IndexInv'
  <1>1. Carried'
    BY DEF IndexInv, Carried
  <1>2. ASSUME NEW e \in Entry, line'[e].held
        PROVE  Dropping(e)' \/ \A d \in line'[e].used \ Owed(e)' : e \in deps'[d]
    <2>1. Owed(e)' = Owed(e)
      BY DEF Owed, Storing
    <2>2. Dropping(e) => Dropping(e)'
      BY DEF Dropping
    <2>. QED
      BY <1>2, <2>1, <2>2 DEF IndexInv, Indexed
  <1>3. Indexed'
    BY <1>2 DEF Indexed
  <1>. QED
    BY <1>1, <1>3 DEF IndexInv

-----------------------------------------------------------------------------
\* New requests: Process is idle and stores nothing afterwards.
LEMMA IndexRequest == IndexInv /\ NewRequest => IndexInv'
  <1>. SUFFICES ASSUME IndexInv, NewRequest PROVE IndexInv'
    OBVIOUS
  <1>. USE DEF IndexInv
  <1>1. ASSUME NEW r \in Rid, NEW ca \in Served, StartRequest(r, ca)
        PROVE  IndexInv'
    <2>1. process = Idle /\ (process' = process \/ process' = Writing(Extended("calls"), Idle))
      BY <1>1 DEF StartRequest, Request
    <2>2. UNCHANGED <<deps, line, ticker>>
      BY <1>1 DEF StartRequest
    <2>3. Shapes'
      BY <1>1, <2>1, <2>2 DEF StartRequest, Shapes, Writing, Reading
    <2>. QED
      BY <2>1, <2>2, <2>3, Elsewhere DEF Idle, Writing
  <1>2. ASSUME NEW r \in Rid, Abandon(r)
        PROVE  IndexInv'
    <2>1. UNCHANGED <<deps, line, process, ticker>>
      BY <1>2 DEF Abandon, shared
    <2>2. Shapes'
      BY <1>2, <2>1 DEF Abandon, Shapes
    <2>. QED
      BY <2>1, <2>2, Elsewhere
  <1>3. ASSUME NEW r \in Rid, NEW caller \in Caller, NEW used \in SUBSET Dep,
               EndRequest(r, caller, used)
        PROVE  IndexInv'
    <2>. DEFINE saving == Saving(<<caller, serving[r]>>, used, since[r] \cap used)
    <2>1. process = Idle /\ UNCHANGED <<deps, line, ticker>>
      BY <1>3 DEF EndRequest
    <2>2. saving \in Reading
      <3>1. <<caller, serving[r]>> \in Entry
        BY <1>3 DEF EndRequest, Shapes, Entry
      <3>. QED
        BY <3>1 DEF Saving, Reading
    <2>3. PICK next \in {Idle, saving} :
             process' = next \/ \E items : process' = Writing(items, next)
      BY <1>3 DEF EndRequest
    <2>4. next \in Reading /\ next.at \in {"idle", "save"}
      BY <2>2, <2>3 DEF Reading, Idle, Saving
    <2>5. process'.at \notin {"get", "mark", "add"}
      BY <2>3, <2>4 DEF Writing
    <2>6. process' \in Reading \/ (process'.at = "write" /\ process'.next \in Reading)
      BY <2>3, <2>4 DEF Writing
    <2>7. Shapes'
      BY <1>3, <2>1, <2>6 DEF EndRequest, Shapes
    <2>. QED
      BY <2>1, <2>5, <2>7, Elsewhere DEF Idle
  <1>4. ASSUME NEW k \in Key, InvalidateKeyRequest(k)
        PROVE  IndexInv'
    <2>1. process = Idle /\ process' = Writing(Extended("write"), [at |-> "pop", key |-> k])
      BY <1>4 DEF InvalidateKeyRequest, Request
    <2>2. UNCHANGED <<deps, line, ticker, serving>>
      BY <1>4 DEF InvalidateKeyRequest, ghosts
    <2>3. Shapes'
      BY <2>1, <2>2 DEF Shapes, Writing, Reading
    <2>. QED
      BY <2>1, <2>2, <2>3, Elsewhere DEF Idle, Writing
  <1>5. ASSUME NEW calls \in SUBSET Called, InvalidateCallsRequest(calls)
        PROVE  IndexInv'
    <2>1. /\ process = Idle
          /\ process' = [at |-> "buffer", calls |-> calls]
          /\ UNCHANGED <<deps, ticker, serving>>
      BY <1>5 DEF InvalidateCallsRequest, Request, shared
    <2>2. \A e \in Entry :
             /\ line'[e] \in [held : BOOLEAN, used : SUBSET Dep, stale : SUBSET Dep]
             /\ line'[e].held = line[e].held
             /\ line'[e].used = line[e].used
      BY <1>5 DEF InvalidateCallsRequest, Shapes
    <2>. process' \in [at : {"buffer"}, calls : SUBSET Called]
      BY <2>1
    <2>. line' \in [Entry -> [held : BOOLEAN, used : SUBSET Dep, stale : SUBSET Dep]]
      BY <1>5, <2>2 DEF InvalidateCallsRequest
    <2>3. Shapes'
      BY <2>1 DEF Shapes
    <2>4. \A e \in Entry : Owed(e) = {} /\ Owed(e)' = {} /\ Dropping(e)' = Dropping(e)
      BY <2>1 DEF Owed, Storing, Dropping, Idle
    <2>5. Indexed'
      BY <2>1, <2>2, <2>4 DEF Indexed
    <2>. QED
      BY <2>1, <2>3, <2>5 DEF Carried
  <1>6. ASSUME NEW calls \in SUBSET Called, SaveCallsRequest(calls)
        PROVE  IndexInv'
    <2>1. UNCHANGED <<deps, line, process, ticker, serving>>
      BY <1>6 DEF SaveCallsRequest, ghosts
    <2>2. Shapes'
      BY <2>1 DEF Shapes
    <2>. QED
      BY <2>1, <2>2, Elsewhere
  <1>. QED
    BY <1>1, <1>2, <1>3, <1>4, <1>5, <1>6 DEF NewRequest

-----------------------------------------------------------------------------
\* The steps of Process inside a request.

LEMMA IndexWriteHistory == IndexInv /\ WriteHistory => IndexInv'
  <1>. SUFFICES ASSUME IndexInv, WriteHistory PROVE IndexInv'
    OBVIOUS
  <1>1. process.at = "write" /\ process' = process.next
    BY DEF WriteHistory
  <1>2. UNCHANGED <<deps, line, ticker, serving>>
    BY DEF WriteHistory, ghosts
  <1>3. process.next \in Reading
    BY <1>1 DEF IndexInv, Shapes, Reading, Idle
  <1>4. process'.at \notin {"get", "mark", "add"}
    BY <1>1, <1>3 DEF Reading, Idle
  <1>5. Shapes'
    BY <1>1, <1>2, <1>3 DEF IndexInv, Shapes
  <1>. QED
    BY <1>1, <1>2, <1>4, <1>5, Elsewhere

\* What the key pops is told to the callers in the same step.
LEMMA IndexPopKeyDeps == IndexInv /\ PopKeyDeps => IndexInv'
  <1>. SUFFICES ASSUME IndexInv, PopKeyDeps PROVE IndexInv'
    OBVIOUS
  <1>. USE DEF IndexInv
  <1>. DEFINE names == {process.key}
  <1>1. /\ process.at = "pop" /\ process' = Idle
        /\ deps' = PopDeps(deps, names)
        /\ UNCHANGED <<ticker, serving>>
    BY DEF PopKeyDeps
  <1>2. names \subseteq Dep
    BY <1>1 DEF Shapes, Reading, Idle, Dep
  <1>3. \A e \in Entry :
           line'[e] = IF e \in Popped(deps, names) THEN Dropped
                      ELSE [line[e] EXCEPT !.stale = @ \cup (line[e].used \cap names)]
    BY DEF PopKeyDeps
  <1>4. \A e \in Entry :
           /\ line'[e] \in [held : BOOLEAN, used : SUBSET Dep, stale : SUBSET Dep]
           /\ line'[e].held => /\ e \notin Popped(deps, names)
                               /\ line[e].held
                               /\ line'[e].used = line[e].used
    <2>. SUFFICES ASSUME NEW e \in Entry
                  PROVE  /\ line'[e] \in [held : BOOLEAN, used : SUBSET Dep, stale : SUBSET Dep]
                         /\ line'[e].held => /\ e \notin Popped(deps, names)
                                             /\ line[e].held
                                             /\ line'[e].used = line[e].used
      OBVIOUS
    <2>1. line[e] \in [held : BOOLEAN, used : SUBSET Dep, stale : SUBSET Dep]
      BY DEF Shapes
    <2>2. CASE e \in Popped(deps, names)
      <3>1. line'[e] = Dropped
        BY <1>3, <2>2, Zenon
      <3>. QED
        BY <3>1 DEF Dropped
    <2>3. CASE e \notin Popped(deps, names)
      <3>1. line'[e] = [line[e] EXCEPT !.stale = @ \cup (line[e].used \cap names)]
        BY <1>3, <2>3, Zenon
      <3>. QED
        BY <1>2, <2>1, <2>3, <3>1
    <2>. QED
      BY <2>2, <2>3
  <1>5. line' \in [Entry -> [held : BOOLEAN, used : SUBSET Dep, stale : SUBSET Dep]]
    BY <1>4 DEF PopKeyDeps
  <1>6. deps' \in [Dep -> SUBSET Entry]
    BY <1>1 DEF Shapes, PopDeps
  <1>7. Shapes'
    BY <1>1, <1>5, <1>6 DEF Shapes, Reading
  <1>8. ASSUME NEW e \in Entry, line'[e].held
        PROVE  Dropping(e)' \/ \A d \in line'[e].used \ Owed(e)' : e \in deps'[d]
    <2>1. Dropping(e)' = Dropping(e) /\ Owed(e) = {}
      BY <1>1 DEF Dropping, Owed, Storing
    <2>2. Dropping(e) \/ \A d \in line[e].used : e \in deps[d]
      BY <1>4, <1>8, <2>1 DEF Indexed
    <2>3. line'[e].used \subseteq Dep
      BY <1>4
    <2>4. ASSUME NEW d \in line'[e].used, e \in deps[d]
          PROVE  e \in deps'[d]
      BY <1>1, <1>4, <1>8, <2>3, <2>4 DEF Popped, PopDeps
    <2>. QED
      BY <1>4, <1>8, <2>1, <2>2, <2>4
  <1>9. Carried' /\ Indexed'
    BY <1>1, <1>8 DEF Carried, Indexed, Idle
  <1>. QED
    BY <1>7, <1>9

\* Where Process goes with todo left to store.
LEMMA StoreFacts ==
    ASSUME NEW todo \in SUBSET Called, process.entry \in Entry, process' = Store(todo)
    PROVE  /\ process' \in Reading \cup [at : {"get"}, entry : Entry, todo : SUBSET Called]
           /\ process'.at \in {"idle", "get"}
           /\ \A e : Owed(e)' = IF e = process.entry THEN todo ELSE {}
  <1>1. CASE todo = {}
    BY <1>1 DEF Store, Reading, Idle, Owed, Storing
  <1>2. CASE todo # {}
    BY <1>2 DEF Store, Owed, Storing
  <1>. QED
    BY <1>1, <1>2

LEMMA IndexSendSave == IndexInv /\ SendSave => IndexInv'
  <1>. SUFFICES ASSUME IndexInv, SendSave PROVE IndexInv'
    OBVIOUS
  <1>. USE DEF IndexInv
  <1>. DEFINE entry == process.entry
              used == process.used
  <1>1. /\ process.at = "save"
        /\ process' = Store(used \cap Called)
        /\ deps' = StoreDeps(deps, entry, used \cap Key)
        /\ line' = [line EXCEPT ![entry] =
                       [held |-> TRUE, used |-> used, stale |-> process.stale]]
        /\ UNCHANGED <<ticker, serving>>
    BY DEF SendSave
  <1>2. process \in [at : {"save"}, entry : Entry, used : SUBSET Dep, stale : SUBSET Dep]
    BY <1>1 DEF Shapes, Reading, Idle
  <1>3. /\ process' \in Reading \cup [at : {"get"}, entry : Entry, todo : SUBSET Called]
        /\ process'.at \in {"idle", "get"}
        /\ \A e : Owed(e)' = IF e = entry THEN used \cap Called ELSE {}
    BY <1>1, <1>2, StoreFacts
  <1>4. deps' \in [Dep -> SUBSET Entry] /\ \A d \in Dep : deps[d] \subseteq deps'[d]
    BY <1>1, <1>2 DEF Shapes, StoreDeps
  <1>5. line' \in [Entry -> [held : BOOLEAN, used : SUBSET Dep, stale : SUBSET Dep]]
    BY <1>1, <1>2 DEF Shapes
  <1>6. Shapes'
    BY <1>1, <1>3, <1>4, <1>5 DEF Shapes
  <1>7. ASSUME NEW e \in Entry, line'[e].held
        PROVE  Dropping(e)' \/ \A d \in line'[e].used \ Owed(e)' : e \in deps'[d]
    <2>1. CASE e = entry
      <3>1. line'[e].used = used /\ Owed(e)' = used \cap Called
        BY <1>1, <1>2, <1>3, <2>1 DEF Shapes
      <3>2. \A d \in used \ Called : d \in Dep /\ d \in used \cap Key
        BY <1>2 DEF Dep
      <3>. QED
        BY <1>1, <2>1, <3>1, <3>2 DEF StoreDeps
    <2>2. CASE e # entry
      <3>1. line'[e] = line[e]
        BY <1>1, <2>2 DEF Shapes
      <3>2. Dropping(e)' = Dropping(e) /\ Owed(e) = {}
        BY <1>1 DEF Dropping, Owed, Storing
      <3>3. line[e].used \subseteq Dep
        BY DEF Shapes
      <3>. QED
        BY <1>4, <1>7, <3>1, <3>2, <3>3 DEF Indexed
    <2>. QED
      BY <2>1, <2>2
  <1>8. Carried' /\ Indexed'
    BY <1>3, <1>7 DEF Carried, Indexed
  <1>. QED
    BY <1>6, <1>8

LEMMA IndexGetCallDep ==
    ASSUME IndexInv, NEW d \in Called, GetCallDep(d)
    PROVE  IndexInv'
  <1>. USE DEF IndexInv
  <1>1. process \in [at : {"get"}, entry : Entry, todo : SUBSET Called]
    BY DEF GetCallDep, Shapes, Reading, Idle
  <1>2. /\ process' = [at |-> "mark", entry |-> process.entry, todo |-> process.todo,
                       dep |-> d, callers |-> deps[d]]
        /\ UNCHANGED <<deps, line, ticker, serving>>
    BY DEF GetCallDep, shared, ghosts
  <1>3. deps[d] \in SUBSET Entry
    BY DEF Shapes, Dep
  <1>4. Shapes' /\ Carried'
    BY <1>1, <1>2, <1>3 DEF Shapes, Carried
  <1>5. \A e : Owed(e)' = Owed(e) /\ Dropping(e)' = Dropping(e)
    BY <1>1, <1>2 DEF Owed, Storing, Dropping
  <1>6. Indexed'
    BY <1>2, <1>5 DEF Indexed
  <1>. QED
    BY <1>4, <1>6

\* The map sees the mark only if the entry was not popped since the Get.
LEMMA IndexMarkCallDep == IndexInv /\ MarkCallDep => IndexInv'
  <1>. SUFFICES ASSUME IndexInv, MarkCallDep PROVE IndexInv'
    OBVIOUS
  <1>. USE DEF IndexInv
  <1>1. /\ process \in [at : {"mark"}, entry : Entry, todo : SUBSET Called,
                        dep : Called, callers : SUBSET Entry]
        /\ process.dep \in Dep
    BY DEF MarkCallDep, Shapes, Reading, Idle, Dep
  <1>2. /\ process' = [process EXCEPT !.at = "add", !.callers = @ \cup {process.entry}]
        /\ deps' = [deps EXCEPT ![process.dep] =
                       IF deps[process.dep] = {} THEN {}
                       ELSE deps[process.dep] \cup {process.entry}]
        /\ UNCHANGED <<line, ticker, serving>>
    BY DEF MarkCallDep, ghosts
  <1>3. /\ process'.at = "add" /\ process'.entry = process.entry
        /\ process'.todo = process.todo /\ process'.dep = process.dep
        /\ process'.callers = process.callers \cup {process.entry}
        /\ process' \in [at : {"add"}, entry : Entry, todo : SUBSET Called,
                         dep : Called, callers : SUBSET Entry]
    BY <1>1, <1>2
  <1>4. /\ deps' \in [Dep -> SUBSET Entry]
        /\ \A d \in Dep : deps[d] \subseteq deps'[d]
        /\ deps'[process.dep] \subseteq deps[process.dep] \cup {process.entry}
    BY <1>1, <1>2 DEF Shapes
  <1>5. Shapes'
    BY <1>2, <1>3, <1>4 DEF Shapes
  <1>6. Carried'
    BY <1>1, <1>3, <1>4 DEF Carried
  <1>7. \A e : Owed(e)' = Owed(e) /\ Dropping(e)' = Dropping(e)
    BY <1>1, <1>2, <1>3 DEF Owed, Storing, Dropping
  <1>8. \A e \in Entry : line[e].used \subseteq Dep
    BY DEF Shapes
  <1>9. Indexed'
    BY <1>2, <1>4, <1>7, <1>8 DEF Indexed
  <1>. QED
    BY <1>5, <1>6, <1>9

\* The put loses nobody, since what is carried covers what is in the map.
LEMMA IndexAddCallDep == IndexInv /\ AddCallDep => IndexInv'
  <1>. SUFFICES ASSUME IndexInv, AddCallDep PROVE IndexInv'
    OBVIOUS
  <1>. USE DEF IndexInv
  <1>. DEFINE dep == process.dep
              left == process.todo \ {dep}
  <1>1. /\ process \in [at : {"add"}, entry : Entry, todo : SUBSET Called,
                        dep : Called, callers : SUBSET Entry]
        /\ dep \in Dep
    BY DEF AddCallDep, Shapes, Reading, Idle, Dep
  <1>2. /\ process' = Store(left)
        /\ deps' = [deps EXCEPT ![dep] = process.callers]
        /\ UNCHANGED <<line, ticker, serving>>
    BY DEF AddCallDep, ghosts
  <1>3. left \in SUBSET Called
    BY <1>1
  <1>4. /\ process' \in Reading \cup [at : {"get"}, entry : Entry, todo : SUBSET Called]
        /\ process'.at \in {"idle", "get"}
        /\ \A e : Owed(e)' = IF e = process.entry THEN left ELSE {}
    BY <1>1, <1>2, <1>3, StoreFacts
  <1>5. /\ deps' \in [Dep -> SUBSET Entry]
        /\ \A d \in Dep : deps[d] \subseteq deps'[d]
        /\ process.entry \in deps'[dep]
    BY <1>1, <1>2 DEF Shapes, Carried
  <1>6. Shapes'
    BY <1>2, <1>4, <1>5 DEF Shapes
  <1>7. ASSUME NEW e \in Entry, line[e].held
        PROVE  Dropping(e)' \/ \A d \in line[e].used \ Owed(e)' : e \in deps'[d]
    <2>1. Dropping(e)' = Dropping(e)
      BY <1>2 DEF Dropping
    <2>2. Owed(e) = IF e = process.entry THEN process.todo ELSE {}
      BY <1>1 DEF Owed, Storing
    <2>3. line[e].used \subseteq Dep
      BY DEF Shapes
    <2>4. ASSUME NEW d \in line[e].used \ Owed(e)', d \in Owed(e)
          PROVE  e \in deps'[d]
      BY <1>4, <1>5, <2>2, <2>4
    <2>. QED
      BY <1>5, <1>7, <2>1, <2>3, <2>4 DEF Indexed
  <1>8. Carried' /\ Indexed'
    BY <1>2, <1>4, <1>7 DEF Carried, Indexed
  <1>. QED
    BY <1>6, <1>8

LEMMA IndexBufferCalls == IndexInv /\ BufferCalls => IndexInv'
  <1>. SUFFICES ASSUME IndexInv, BufferCalls PROVE IndexInv'
    OBVIOUS
  <1>1. process.at = "buffer" /\ process' = Idle
    BY DEF BufferCalls
  <1>2. UNCHANGED <<deps, line, ticker, serving>>
    BY DEF BufferCalls, ghosts
  <1>3. Shapes'
    BY <1>1, <1>2 DEF IndexInv, Shapes, Reading
  <1>. QED
    BY <1>1, <1>2, <1>3, Elsewhere DEF Idle

-----------------------------------------------------------------------------
\* The ticker goroutine takes away from the index only what it then tells.

LEMMA IndexPopCallDep ==
    ASSUME IndexInv, NEW c \in Called, PopCallDep(c)
    PROVE  IndexInv'
  <1>. USE DEF IndexInv
  <1>1. /\ ticker.at = "pop"
        /\ deps' = PopDeps(deps, {c})
        /\ UNCHANGED <<line, process, serving>>
    BY DEF PopCallDep, ghosts
  <1>2. ticker'.at = "pop" /\ ticker'.popped = ticker.popped \cup deps[c]
    BY DEF PopCallDep, Popping
  <1>3. \A d \in Dep : deps'[d] = IF d = c THEN {} ELSE deps[d]
    BY <1>1 DEF PopDeps
  <1>4. deps' \in [Dep -> SUBSET Entry]
    BY <1>1, <1>3 DEF Shapes, PopDeps
  <1>5. Shapes'
    BY <1>1, <1>2, <1>4 DEF Shapes
  <1>6. Carried'
    <2>1. process.at \in {"mark", "add"} => process.dep \in Dep
      BY DEF Shapes, Reading, Idle, Dep
    <2>. QED
      BY <1>1, <1>3, <2>1 DEF Carried
  <1>7. ASSUME NEW e \in Entry, line[e].held
        PROVE  Dropping(e)' \/ \A d \in line[e].used \ Owed(e)' : e \in deps'[d]
    <2>1. Owed(e)' = Owed(e) /\ line[e].used \subseteq Dep
      BY <1>1 DEF Owed, Storing, Shapes
    <2>2. CASE Dropping(e) \/ e \in deps[c]
      BY <1>2, <2>2 DEF Dropping
    <2>3. CASE ~Dropping(e) /\ e \notin deps[c]
      BY <1>3, <1>7, <2>1, <2>3 DEF Indexed
    <2>. QED
      BY <2>2, <2>3
  <1>8. Indexed'
    BY <1>1, <1>7 DEF Indexed
  <1>. QED
    BY <1>5, <1>6, <1>8

LEMMA IndexSendInvs == IndexInv /\ SendInvs => IndexInv'
  <1>. SUFFICES ASSUME IndexInv, SendInvs PROVE IndexInv'
    OBVIOUS
  <1>. USE DEF IndexInv
  <1>1. /\ ticker' = [at |-> "remove", calls |-> ticker.calls]
        /\ UNCHANGED <<deps, process, serving>>
        /\ \A e \in Entry : line'[e] = IF e \in ticker.popped THEN Dropped ELSE line[e]
    BY DEF SendInvs, shared
  <1>2. line' \in [Entry -> [held : BOOLEAN, used : SUBSET Dep, stale : SUBSET Dep]]
    BY DEF SendInvs, Shapes, Dropped
  <1>3. Shapes' /\ Carried'
    BY <1>1, <1>2 DEF Shapes, Carried
  <1>4. ASSUME NEW e \in Entry, line'[e].held
        PROVE  \A d \in line'[e].used \ Owed(e)' : e \in deps'[d]
    <2>1. e \notin ticker.popped /\ line'[e] = line[e]
      BY <1>1, <1>4 DEF Dropped
    <2>2. Owed(e)' = Owed(e) /\ ~Dropping(e)
      BY <1>1, <2>1 DEF Owed, Storing, Dropping
    <2>. QED
      BY <1>1, <1>4, <2>1, <2>2 DEF Indexed
  <1>5. Indexed'
    BY <1>4 DEF Indexed
  <1>. QED
    BY <1>3, <1>5

LEMMA IndexTicker == IndexInv /\ Ticker => IndexInv'
  <1>. SUFFICES ASSUME IndexInv, Ticker PROVE IndexInv'
    OBVIOUS
  <1>1. ASSUME UNCHANGED <<deps, line, process, serving>>, ticker.at # "pop",
               ticker'.at = "write" => ticker'.next.at = "append"
        PROVE  IndexInv'
    <2>1. Shapes'
      BY <1>1 DEF IndexInv, Shapes
    <2>. QED
      BY <1>1, <2>1, Elsewhere
  <1>2. CASE Tick
    BY <1>1, <1>2 DEF Tick, shared, ghosts, Waiting
  <1>3. CASE Drain
    <2>1. ticker.at = "drain" /\ ticker' = [ticker EXCEPT !.calls = @ \cup Head(buffer)]
      BY <1>3 DEF Drain
    <2>2. ticker'.at = "drain"
      BY <2>1
    <2>. QED
      BY <1>1, <1>3, <2>1, <2>2 DEF Drain, ghosts
  <1>4. CASE Drained
    BY <1>1, <1>4 DEF Drained, shared, ghosts, Waiting, Appending
  <1>5. ASSUME NEW c \in Called, AppendInvCall(c)
        PROVE  IndexInv'
    BY <1>1, <1>5 DEF AppendInvCall, ghosts, Writing, Appending
  <1>6. ASSUME NEW c \in Called, PopCallDep(c)
        PROVE  IndexInv'
    BY <1>6, IndexPopCallDep
  <1>7. CASE WriteInvCall
    BY <1>1, <1>7 DEF WriteInvCall, ghosts, IndexInv, Shapes, Popping
  <1>8. CASE SendInvs
    BY <1>8, IndexSendInvs
  <1>9. CASE CacheRemoveCalls
    BY <1>1, <1>9 DEF CacheRemoveCalls, ghosts, Waiting
  <1>. QED
    BY <1>2, <1>3, <1>4, <1>5, <1>6, <1>7, <1>8, <1>9 DEF Ticker

-----------------------------------------------------------------------------
LEMMA IndexNext == IndexInv /\ [Next]_vars => IndexInv'
  <1>1. IndexInv /\ Process => IndexInv'
    BY IndexWriteHistory, IndexPopKeyDeps, IndexSendSave, IndexGetCallDep,
       IndexMarkCallDep, IndexAddCallDep, IndexBufferCalls DEF Process
  <1>2. IndexInv /\ UNCHANGED vars => IndexInv'
    BY DEF vars, shared, ghosts, IndexInv, Shapes, Carried, Indexed, Dropping, Owed, Storing
  <1>. QED
    BY <1>1, <1>2, IndexRequest, IndexTicker DEF Next

\* The unlocked Get and Add of storeCallDeps against the Get and Remove of
\* popCallDeps: no line a caller holds drops out of the index.
THEOREM Indexing == Spec => []Registered
  <1>1. IndexInv => Registered
    BY DEF IndexInv, Indexed, Registered, Owed
  <1>. QED
    BY IndexInit, IndexNext, <1>1, PTL DEF Spec

-----------------------------------------------------------------------------
(***************************************************************************)
(* Types.  An item that is appended needs an address that none in use has. *)
(***************************************************************************)
Free == Ref \ Live # {}

Appends ==
    {a \in [at : {"append"}, calls : SUBSET Called, todo : SUBSET Called, ref : Ref \cup {None}] :
       a.todo \subseteq a.calls}
Pops ==
    {p \in [at : {"pop"}, calls : SUBSET Called, todo : SUBSET Called, popped : SUBSET Entry] :
       p.todo \subseteq p.calls}

TickerTypes ==
    \/ ticker = Waiting
    \/ ticker \in [at : {"drain", "remove"}, calls : SUBSET Called]
    \/ ticker \in Appends \cup Pops
    \/ ticker = Writing(ticker.history, ticker.next)
          /\ ticker.history \in Seq(Item) /\ ticker.next \in Appends

Places ==
    /\ history \in Seq(Item)
    /\ heap \in [Ref -> SUBSET (Served \cup Dep)]
    /\ cached \in SUBSET Called
    /\ buffer \in Seq(SUBSET Called) /\ Len(buffer) <= BufferSize
    /\ process.at = "write" => process.history \in Seq(Item)
    /\ TickerTypes
    /\ since \in [Rid -> SUBSET Dep]

Typed == Shapes /\ Places

-----------------------------------------------------------------------------
LEMMA NewRefFacts ==
    ASSUME Free
    PROVE  NewRef \in Ref /\ NewRef \notin Live
  <1>1. PICK ref : ref \in Ref \ Live
    BY DEF Free
  <1>2. Ref \ Live \in SUBSET Nat
    BY AddressAssumption
  <1>. DEFINE R == OpToRel(<, Nat)
  <1>3. \A x, y \in Nat : <<x, y>> \in R <=> x < y
    BY DEF OpToRel
  <1>4. IsWellFoundedOn(R, Nat)
    BY NatLessThanWellFounded
  <1>. HIDE DEF R
  <1>5. PICK least \in Ref \ Live : \A other \in Ref \ Live : <<other, least>> \notin R
    BY <1>1, <1>2, <1>4, WFMin
  <1>6. ASSUME NEW other \in Ref \ Live PROVE least <= other
    <2>1. other \in Nat /\ least \in Nat /\ <<other, least>> \notin R
      BY <1>2, <1>5
    <2>2. ~(other < least)
      BY <1>3, <2>1
    <2>. QED
      BY <2>1, <2>2
  <1>. QED
    BY <1>6 DEF NewRef

LEMMA AllocFacts ==
    ASSUME Free, heap \in [Ref -> SUBSET (Served \cup Dep)], NEW names \in SUBSET (Served \cup Dep)
    PROVE  /\ Alloc(names) \in [Ref -> SUBSET (Served \cup Dep)]
           /\ Alloc(names)[NewRef] = names
           /\ \A ref \in Ref \cap Live : Alloc(names)[ref] = heap[ref]
  BY NewRefFacts DEF Alloc

LEMMA ExtendedTyped ==
    ASSUME Free, history \in Seq(Item), NEW kind \in {"calls", "write", "invcall"}
    PROVE  /\ [kind |-> kind, ref |-> NewRef] \in Item
           /\ Extended(kind) \in Seq(Item)
  BY NewRefFacts DEF Extended, Item

LEMMA TypedInit == Init => Typed
  <1>. SUFFICES ASSUME Init PROVE Typed
    OBVIOUS
  <1>1. Shapes
    BY IndexInit DEF IndexInv
  <1>2. Places
    BY BoundsAssumption DEF Init, Places, TickerTypes, Idle
  <1>. QED
    BY <1>1, <1>2 DEF Typed

LEMMA TypedRequest == Typed /\ Free /\ NewRequest => Places'
  <1>. SUFFICES ASSUME Typed, Free, NewRequest PROVE Places'
    OBVIOUS
  <1>. USE DEF Typed
  <1>0. history \in Seq(Item) /\ Len(history) \in Nat /\ heap \in [Ref -> SUBSET (Served \cup Dep)]
    BY DEF Places
  <1>1. ASSUME NEW r \in Rid, NEW ca \in Served, StartRequest(r, ca)
        PROVE  Places'
    <2>1. UNCHANGED <<history, cached, buffer, ticker>> /\ process = Idle
      BY <1>1 DEF StartRequest, Request
    <2>2. since' \in [Rid -> SUBSET Dep]
      <3>1. Received \in SUBSET Dep
        <4>1. Buffered \in SUBSET Called
          BY DEF Places, Buffered
        <4>2. InProcess = {}
          BY <2>1 DEF InProcess, Idle
        <4>3. InTicker \in SUBSET Called
          BY DEF Places, InTicker, TickerTypes, Appends, Pops, Waiting, Writing
        <4>. QED
          BY <4>1, <4>2, <4>3 DEF Received, Dep
      <3>. QED
        BY <1>1, <3>1 DEF StartRequest, Places
    <2>3. heap' \in [Ref -> SUBSET (Served \cup Dep)]
          /\ (process'.at = "write" => process'.history \in Seq(Item))
      <3>1. CASE Len(history) > 0 /\ IsCallArgSet(history[Len(history)])
        <4>1. heap' = [heap EXCEPT ![history[Len(history)].ref] = @ \cup {ca}]
              /\ process' = process
          BY <1>1, <3>1 DEF StartRequest
        <4>2. history[Len(history)].ref \in Ref
          <5>1. history[Len(history)] \in Item
            BY <1>0, <3>1
          <5>. QED
            BY <5>1 DEF Item
        <4>3. heap[history[Len(history)].ref] \cup {ca} \in SUBSET (Served \cup Dep)
          BY <1>0, <4>2
        <4>. QED
          BY <1>0, <2>1, <4>1, <4>2, <4>3 DEF Idle
      <3>2. CASE ~(Len(history) > 0 /\ IsCallArgSet(history[Len(history)]))
        <4>1. heap' = Alloc({ca}) /\ process' = Writing(Extended("calls"), Idle)
          BY <1>1, <3>2 DEF StartRequest
        <4>2. Alloc({ca}) \in [Ref -> SUBSET (Served \cup Dep)]
          BY <1>0, AllocFacts
        <4>. QED
          BY <1>0, <4>1, <4>2, ExtendedTyped DEF Writing
      <3>. QED
        BY <3>1, <3>2
    <2>. QED
      BY <2>1, <2>2, <2>3 DEF Places, TickerTypes
  <1>2. ASSUME NEW r \in Rid, Abandon(r)
        PROVE  Places'
    <2>1. UNCHANGED <<history, heap, cached, buffer, process, ticker>>
      BY <1>2 DEF Abandon, shared
    <2>2. since' \in [Rid -> SUBSET Dep]
      BY <1>2 DEF Abandon, Places
    <2>. QED
      BY <2>1, <2>2 DEF Places, TickerTypes
  <1>3. ASSUME NEW r \in Rid, NEW caller \in Caller, NEW used \in SUBSET Dep,
               EndRequest(r, caller, used)
        PROVE  Places'
    <2>. DEFINE ca == serving[r]
                rest == RemoveStart(Deref(history), ca)
    <2>1. UNCHANGED <<history, cached, buffer, ticker>> /\ since' \in [Rid -> SUBSET Dep]
      BY <1>3 DEF EndRequest, Places
    <2>2. heap' \in [Ref -> SUBSET (Served \cup Dep)]
      <3>1. \A i \in 1..Len(history) : rest[i].names \in SUBSET (Served \cup Dep)
        <4>1. ASSUME NEW i \in 1..Len(history)
              PROVE  rest[i].names \in SUBSET (Served \cup Dep)
          <5>1. history[i].ref \in Ref
            <6>1. history[i] \in Item
              BY <1>0, <4>1
            <6>. QED
              BY <6>1 DEF Item
          <5>2. /\ Len(Deref(history)) = Len(history)
                /\ Deref(history)[i] = [kind |-> history[i].kind, names |-> heap[history[i].ref]]
            BY <1>0, <4>1 DEF Deref
          <5>3. rest[i].names \subseteq heap[history[i].ref]
            BY <4>1, <5>2 DEF RemoveStart
          <5>. QED
            BY <1>0, <5>1, <5>3
        <4>. QED
          BY <4>1
      <3>. HIDE DEF rest
      <3>2. \A ref \in Ref :
               heap'[ref] = IF \E i \in 1..Len(history) : history[i].ref = ref
                            THEN rest[CHOOSE i \in 1..Len(history) : history[i].ref = ref].names
                            ELSE heap[ref]
        BY <1>3 DEF EndRequest, rest
      <3>3. heap' = [ref \in Ref |-> heap'[ref]]
        BY <1>3 DEF EndRequest
      <3>4. ASSUME NEW ref \in Ref PROVE heap'[ref] \in SUBSET (Served \cup Dep)
        BY <1>0, <3>1, <3>2
      <3>. QED
        BY <3>3, <3>4
    <2>3. process'.at = "write" => process'.history \in Seq(Item)
      <3>1. \/ process'.at \in {"idle", "save"}
            \/ \E next : \E j \in 1..(Len(history) + 1) :
                  process' = Writing(SubSeq(history, j, Len(history)), next)
        BY <1>3 DEF EndRequest, Idle, Saving
      <3>2. \A j \in 1..(Len(history) + 1) : SubSeq(history, j, Len(history)) \in Seq(Item)
        BY <1>0, SubSeqProperties, ElementOfSeq
      <3>3. ASSUME NEW next, NEW j \in 1..(Len(history) + 1),
                   process' = Writing(SubSeq(history, j, Len(history)), next)
            PROVE  process'.history \in Seq(Item)
        BY <3>2, <3>3 DEF Writing
      <3>. QED
        BY <3>1, <3>3
    <2>. QED
      BY <2>1, <2>2, <2>3 DEF Places, TickerTypes
  <1>4. ASSUME NEW k \in Key, InvalidateKeyRequest(k)
        PROVE  Places'
    <2>1. /\ heap' = Alloc({k})
          /\ process' = Writing(Extended("write"), [at |-> "pop", key |-> k])
          /\ UNCHANGED <<history, cached, buffer, ticker, since>>
      BY <1>4 DEF InvalidateKeyRequest, ghosts
    <2>2. Alloc({k}) \in [Ref -> SUBSET (Served \cup Dep)]
      BY <1>0, AllocFacts DEF Dep
    <2>. QED
      BY <1>0, <2>1, <2>2, ExtendedTyped DEF Places, TickerTypes, Writing
  <1>5. ASSUME NEW calls \in SUBSET Called, InvalidateCallsRequest(calls)
        PROVE  Places'
    <2>1. /\ process' = [at |-> "buffer", calls |-> calls] /\ Noticed(calls)
          /\ UNCHANGED <<history, heap, cached, buffer, ticker>>
      BY <1>5 DEF InvalidateCallsRequest, shared
    <2>2. since' \in [Rid -> SUBSET Dep]
      BY <2>1 DEF Noticed, Places, Dep
    <2>. QED
      BY <2>1, <2>2 DEF Places, TickerTypes
  <1>6. ASSUME NEW calls \in SUBSET Called, SaveCallsRequest(calls)
        PROVE  Places'
    BY <1>6 DEF SaveCallsRequest, ghosts, Places, TickerTypes
  <1>. QED
    BY <1>1, <1>2, <1>3, <1>4, <1>5, <1>6 DEF NewRequest

LEMMA TypedProcess == Typed /\ Process => Places'
  <1>. SUFFICES ASSUME Typed, Process PROVE Places'
    OBVIOUS
  <1>. USE DEF Typed
  <1>1. ASSUME UNCHANGED <<heap, cached, buffer, ticker>>, history' \in Seq(Item),
               since' \in [Rid -> SUBSET Dep], process'.at # "write"
        PROVE  Places'
    BY <1>1 DEF Places, TickerTypes
  <1>2. history \in Seq(Item) /\ since \in [Rid -> SUBSET Dep]
    BY DEF Places
  <1>3. CASE WriteHistory
    <2>1. process.at = "write" /\ process.next \in Reading
      BY <1>3 DEF WriteHistory, Shapes, Reading, Idle
    <2>2. history' \in Seq(Item) /\ process'.at # "write"
      BY <1>3, <2>1 DEF WriteHistory, Places, Reading, Idle
    <2>. QED
      BY <1>1, <1>2, <1>3, <2>2 DEF WriteHistory, ghosts
  <1>4. CASE PopKeyDeps
    <2>1. process.at = "pop" /\ process.key \in Key
      BY <1>4 DEF PopKeyDeps, Shapes, Reading, Idle
    <2>2. since' \in [Rid -> SUBSET Dep]
      BY <1>2, <1>4, <2>1 DEF PopKeyDeps, Noticed, Dep
    <2>. QED
      BY <1>1, <1>2, <1>4, <2>2 DEF PopKeyDeps, Idle
  <1>5. CASE SendSave \/ AddCallDep
    <2>1. process'.at # "write"
      BY <1>5 DEF SendSave, AddCallDep, Store, Idle
    <2>. QED
      BY <1>1, <1>2, <1>5, <2>1 DEF SendSave, AddCallDep, ghosts
  <1>6. ASSUME NEW d \in Called, GetCallDep(d) PROVE Places'
    BY <1>1, <1>2, <1>6 DEF GetCallDep, shared, ghosts
  <1>7. CASE MarkCallDep
    <2>1. process \in [at : {"mark"}, entry : Entry, todo : SUBSET Called, dep : Called,
                       callers : SUBSET Entry]
      BY <1>7 DEF MarkCallDep, Shapes, Reading, Idle
    <2>2. process'.at = "add"
      BY <1>7, <2>1 DEF MarkCallDep
    <2>. QED
      BY <1>1, <1>2, <1>7, <2>2 DEF MarkCallDep, ghosts
  <1>8. CASE BufferCalls
    <2>1. process.calls \in SUBSET Called
      BY <1>8 DEF BufferCalls, Shapes, Reading, Idle
    <2>2. /\ Append(buffer, process.calls) \in Seq(SUBSET Called)
          /\ Len(Append(buffer, process.calls)) = Len(buffer) + 1
          /\ Len(buffer) \in Nat
      BY <2>1, AppendProperties DEF Places
    <2>3. /\ buffer' = Append(buffer, process.calls) /\ Len(buffer) < BufferSize
          /\ process' = Idle /\ UNCHANGED <<history, heap, cached, ticker, since>>
      BY <1>8 DEF BufferCalls, ghosts
    <2>4. buffer' \in Seq(SUBSET Called) /\ Len(buffer') <= BufferSize
      BY <2>2, <2>3, BoundsAssumption
    <2>. QED
      BY <2>3, <2>4 DEF Places, TickerTypes, Idle
  <1>. QED
    BY <1>3, <1>4, <1>5, <1>6, <1>7, <1>8 DEF Process

LEMMA TypedTicker == Typed /\ Free /\ Ticker => Places'
  <1>. SUFFICES ASSUME Typed, Free, Ticker PROVE Places'
    OBVIOUS
  <1>. USE DEF Typed
  <1>0. /\ history \in Seq(Item) /\ heap \in [Ref -> SUBSET (Served \cup Dep)]
        /\ cached \in SUBSET Called /\ buffer \in Seq(SUBSET Called)
        /\ Len(buffer) <= BufferSize /\ deps \in [Dep -> SUBSET Entry]
    BY DEF Places, Shapes
  <1>1. ASSUME UNCHANGED <<process, since>>, history' \in Seq(Item),
               heap' \in [Ref -> SUBSET (Served \cup Dep)], cached' \in SUBSET Called,
               buffer' \in Seq(SUBSET Called), Len(buffer') <= BufferSize, TickerTypes'
        PROVE  Places'
    BY <1>1 DEF Places
  <1>2. CASE Tick
    <2>1. ticker' = [at |-> "drain", calls |-> {}] /\ UNCHANGED <<shared, process, ghosts>>
      BY <1>2 DEF Tick
    <2>2. TickerTypes'
      BY <2>1 DEF TickerTypes
    <2>. QED
      BY <1>0, <1>1, <2>1, <2>2 DEF shared, ghosts
  <1>3. ASSUME ticker.at = "drain" PROVE ticker \in [at : {"drain"}, calls : SUBSET Called]
    BY <1>3 DEF Places, TickerTypes, Waiting, Appends, Pops, Writing
  <1>4. CASE Drain
    <2>1. Head(buffer) \in SUBSET Called /\ Tail(buffer) \in Seq(SUBSET Called)
          /\ Len(Tail(buffer)) = Len(buffer) - 1 /\ Len(buffer) \in Nat
      BY <1>0, <1>4, HeadTailProperties DEF Drain
    <2>2. buffer' \in Seq(SUBSET Called) /\ Len(buffer') <= BufferSize
      BY <1>0, <1>4, <2>1, BoundsAssumption DEF Drain
    <2>3. ticker' \in [at : {"drain"}, calls : SUBSET Called]
      BY <1>3, <1>4, <2>1 DEF Drain
    <2>4. TickerTypes'
      BY <2>3 DEF TickerTypes
    <2>. QED
      BY <1>0, <1>1, <1>4, <2>2, <2>4 DEF Drain, ghosts
  <1>5. CASE Drained
    <2>1. ticker' \in {Waiting} \cup Appends
      BY <1>3, <1>5 DEF Drained, Appending, Appends
    <2>2. TickerTypes'
      BY <2>1 DEF TickerTypes
    <2>. QED
      BY <1>0, <1>1, <1>5, <2>2 DEF Drained, shared, ghosts
  <1>6. ASSUME NEW c \in Called, AppendInvCall(c) PROVE Places'
    <2>. DEFINE ref == IF ticker.ref = None THEN NewRef ELSE ticker.ref
                next == Appending(ticker.calls, ticker.todo \ {c}, ref)
    <2>1. ticker \in Appends
      BY <1>6 DEF AppendInvCall, Places, TickerTypes, Waiting, Pops, Writing
    <2>2. ref \in Ref
      BY <2>1, NewRefFacts DEF Appends
    <2>3. next \in Appends
      BY <2>1, <2>2 DEF Appends, Appending
    <2>4. Append(history, [kind |-> "invcall", ref |-> ref]) \in Seq(Item)
      BY <1>0, <2>2 DEF Item
    <2>5. heap' \in [Ref -> SUBSET (Served \cup Dep)]
      <3>1. Alloc({c}) \in [Ref -> SUBSET (Served \cup Dep)]
        BY <1>0, AllocFacts DEF Dep
      <3>2. [heap EXCEPT ![ref] = {c}] \in [Ref -> SUBSET (Served \cup Dep)]
        BY <1>0 DEF Dep
      <3>. QED
        BY <1>6, <3>1, <3>2 DEF AppendInvCall
    <2>6. /\ ticker' = Writing(Append(history, [kind |-> "invcall", ref |-> ref]), next)
          /\ UNCHANGED <<history, cached, buffer, process, since>>
      BY <1>6 DEF AppendInvCall, ghosts
    <2>. HIDE DEF next
    <2>7. TickerTypes'
      BY <2>3, <2>4, <2>6 DEF TickerTypes, Writing
    <2>. QED
      BY <1>0, <1>1, <2>5, <2>6, <2>7
  <1>7. CASE WriteInvCall
    <2>1. ticker.history \in Seq(Item) /\ ticker.next \in Appends
      BY <1>7 DEF WriteInvCall, Places, TickerTypes, Waiting, Appends, Pops
    <2>2. ticker' \in Appends \cup Pops
      <3>1. Popping(ticker.next.calls, ticker.next.calls, {}) \in Pops
        BY <2>1 DEF Popping, Pops, Appends
      <3>. QED
        BY <1>7, <2>1, <3>1 DEF WriteInvCall
    <2>3. TickerTypes'
      BY <2>2 DEF TickerTypes
    <2>. QED
      BY <1>0, <1>1, <1>7, <2>1, <2>3 DEF WriteInvCall, ghosts
  <1>8. ASSUME ticker.at = "pop" PROVE ticker \in Pops
    BY <1>8 DEF Places, TickerTypes, Waiting, Appends, Writing
  <1>9. ASSUME NEW c \in Called, PopCallDep(c) PROVE Places'
    <2>1. ticker' \in Pops
      <3>1. deps[c] \in SUBSET Entry
        BY <1>0 DEF Dep
      <3>. QED
        BY <1>8, <1>9, <3>1 DEF PopCallDep, Popping, Pops
    <2>2. TickerTypes'
      BY <2>1 DEF TickerTypes
    <2>. QED
      BY <1>0, <1>1, <1>9, <2>2 DEF PopCallDep, ghosts
  <1>10. CASE SendInvs
    <2>1. ticker' \in [at : {"remove"}, calls : SUBSET Called]
      BY <1>8, <1>10 DEF SendInvs, Pops
    <2>2. TickerTypes'
      BY <2>1 DEF TickerTypes
    <2>. QED
      BY <1>0, <1>1, <1>10, <2>2 DEF SendInvs, shared
  <1>11. CASE CacheRemoveCalls
    <2>1. TickerTypes' /\ cached' \in SUBSET Called
      BY <1>0, <1>11 DEF CacheRemoveCalls, TickerTypes
    <2>. QED
      BY <1>0, <1>1, <1>11, <2>1 DEF CacheRemoveCalls, ghosts
  <1>. QED
    BY <1>2, <1>4, <1>5, <1>6, <1>7, <1>9, <1>10, <1>11 DEF Ticker

LEMMA TypedNext == Typed /\ IndexInv /\ Free /\ [Next]_vars => Typed'
  <1>. SUFFICES ASSUME Typed, IndexInv, Free, [Next]_vars PROVE Typed'
    OBVIOUS
  <1>1. Shapes'
    BY IndexNext DEF IndexInv
  <1>2. Places'
    <2>1. UNCHANGED vars => Places'
      BY DEF vars, shared, ghosts, Typed, Places, TickerTypes
    <2>. QED
      BY <2>1, TypedRequest, TypedProcess, TypedTicker DEF Next
  <1>. QED
    BY <1>1, <1>2 DEF Typed

(***************************************************************************)
(* Type correctness of Process and the ticker goroutine, for ticks at any  *)
(* point of any request and any capacity of invalidateBuffer, which is     *)
(* never exceeded.  The premise is that of memory: there is an address     *)
(* left whenever one is taken.                                             *)
(***************************************************************************)
THEOREM Typing == Spec /\ []Free => []TypeOK
  <1>1. Typed => TypeOK
    BY DEF Typed, Shapes, Places, TickerTypes, Appends, Pops, Writing, TypeOK
  <1>. QED
    BY IndexInit, IndexNext, TypedInit, TypedNext, <1>1, PTL DEF Spec

-----------------------------------------------------------------------------
(***************************************************************************)
(* Ticks between requests, and one called name, so that the loop variable  *)
(* does no harm.                                                           *)
(***************************************************************************)
OneByOne == ~Interleaved /\ \A c, d \in Called : c = d

\* What items say with heap h.
Said(items, h) == [i \in 1..Len(items) |-> [kind |-> items[i].kind, names |-> h[items[i].ref]]]

\* The history as it is once an append or a collection under way is written.
Header ==
    IF process.at = "write" THEN process.history
    ELSE IF ticker.at = "write" THEN ticker.history
    ELSE history

Past == Said(Header, heap)

\* Names received that the history does not say yet.
Unmarked ==
    Buffered \cup InProcess
        \cup (IF ticker.at = "drain" THEN ticker.calls
              ELSE IF ticker.at = "append" THEN ticker.todo ELSE {})

\* The other goroutine waits, but that Process may hand over what it received.
Turns == ticker = Waiting \/ process.at \in {"idle", "buffer"}

\* One name, so the loop that appends makes one item.
OneItem ==
    /\ ticker.at = "append" => ticker.ref = None /\ ticker.todo = ticker.calls
    /\ ticker.at = "write" => ticker.next.todo = {}

Distinct == \A i, j \in 1..Len(Header) : Header[i].ref = Header[j].ref => i = j

\* Runs are of different calls; the history has the start of each, and after
\* it what the run must not have used, as far as it is marked.
RunsSeen ==
    /\ \A q, r \in Rid : serving[q] # None /\ serving[q] = serving[r] => q = r
    /\ \A r \in Rid : serving[r] # None =>
          /\ StartsOf(Past, serving[r]) # {}
          /\ since[r] \subseteq InvalidatedSince(Past, serving[r]) \cup Unmarked

\* The key that Process is about to pop is marked.
KeyMarked(p) ==
    p.at = "pop" => \A r \in Rid : serving[r] # None =>
                       p.key \in InvalidatedSince(Past, serving[r])

\* What Process saves is stale only in what waits for a tick.
SaveGood(p) == p.at = "save" => p.stale \subseteq p.used \cap Received

LinesGood ==
    \A e \in Entry :
       /\ ~line[e].held => line[e].used = {}
       /\ line[e].stale \subseteq line[e].used \cap Received

\* What the tick pops and removes: nothing is indexed under it, nothing held
\* is stale in it.
TickGood ==
    /\ ticker.at = "pop" => \A c \in ticker.calls \ ticker.todo : deps[c] = {}
    /\ ticker.at = "remove" => \A e \in Entry : line[e].stale \cap ticker.calls = {}

AloneInv ==
    /\ Typed /\ IndexInv
    /\ Turns /\ OneItem
    /\ Distinct /\ Past \in Seq(HistoryItem)
    /\ RunsSeen
    /\ KeyMarked(process) /\ SaveGood(process)
    /\ process.at = "write" => KeyMarked(process.next) /\ SaveGood(process.next)
    /\ LinesGood /\ TickGood

-----------------------------------------------------------------------------
\* Items and what they say.

LEMMA SaidFacts ==
    ASSUME NEW items \in Seq(Item), NEW h
    PROVE  /\ Len(items) \in Nat /\ Len(Said(items, h)) = Len(items)
           /\ \A i \in 1..Len(items) :
                 /\ items[i] \in Item /\ items[i].ref \in Ref
                 /\ Said(items, h)[i] = [kind |-> items[i].kind, names |-> h[items[i].ref]]
  <1>1. \A i \in 1..Len(items) : items[i] \in Item
    OBVIOUS
  <1>. QED
    BY <1>1 DEF Said, Item

\* One more item.
LEMMA SaidAppend ==
    ASSUME NEW items \in Seq(Item), NEW h, NEW g, NEW item \in Item,
           \A i \in 1..Len(items) : g[items[i].ref] = h[items[i].ref]
    PROVE  Said(Append(items, item), g)
              = Append(Said(items, h), [kind |-> item.kind, names |-> g[item.ref]])
  <1>1. /\ Append(items, item) \in Seq(Item) /\ Len(Append(items, item)) = Len(items) + 1
        /\ \A i \in 1..Len(items) : Append(items, item)[i] = items[i]
        /\ Append(items, item)[Len(items) + 1] = item
        /\ Len(items) \in Nat
    BY AppendProperties
  <1>. DEFINE all == Append(items, item)
  <1>. HIDE DEF all
  <1>2. Said(all, g) = [i \in 1..(Len(items) + 1) |->
                           [kind |-> all[i].kind, names |-> g[all[i].ref]]]
    BY <1>1 DEF Said, all
  <1>3. Len(Said(items, h)) = Len(items)
    BY SaidFacts
  <1>4. Append(Said(items, h), [kind |-> item.kind, names |-> g[item.ref]])
           = [i \in 1..(Len(items) + 1) |->
                 IF i = Len(items) + 1 THEN [kind |-> item.kind, names |-> g[item.ref]]
                 ELSE Said(items, h)[i]]
    BY <1>1, <1>3
  <1>5. ASSUME NEW i \in 1..(Len(items) + 1)
        PROVE  [kind |-> all[i].kind, names |-> g[all[i].ref]]
                  = IF i = Len(items) + 1 THEN [kind |-> item.kind, names |-> g[item.ref]]
                    ELSE Said(items, h)[i]
    <2>1. CASE i = Len(items) + 1
      BY <1>1, <2>1 DEF all
    <2>2. CASE i # Len(items) + 1
      <3>1. i \in 1..Len(items)
        BY <1>1, <2>2
      <3>2. all[i] = items[i]
        BY <1>1, <3>1 DEF all
      <3>. QED
        BY <2>2, <3>1, <3>2, SaidFacts
    <2>. QED
      BY <2>1, <2>2
  <1>. QED
    BY <1>2, <1>4, <1>5 DEF all

\* A part of the items says a part.
LEMMA SaidFrom ==
    ASSUME NEW items \in Seq(Item), NEW h, NEW j \in 1..(Len(items) + 1)
    PROVE  /\ SubSeq(items, j, Len(items)) \in Seq(Item)
           /\ Said(SubSeq(items, j, Len(items)), h) = SubSeq(Said(items, h), j, Len(items))
           /\ Len(SubSeq(items, j, Len(items))) = (Len(items) - j) + 1
           /\ \A i \in 1..((Len(items) - j) + 1) :
                 SubSeq(items, j, Len(items))[i] = items[j + i - 1]
  <1>. DEFINE n == Len(items)
              part == SubSeq(items, j, n)
              said == Said(items, h)
  <1>1. n \in Nat /\ j \in Nat /\ j <= n + 1
    OBVIOUS
  <1>2. \A i \in j..n : items[i] \in Item
    BY SaidFacts
  <1>3. /\ part \in Seq(Item) /\ Len(part) = (n - j) + 1
        /\ \A i \in 1..((n - j) + 1) : part[i] = items[j + i - 1]
    <2>1. /\ part \in Seq(Item) /\ Len(part) = IF j <= n THEN n - j + 1 ELSE 0
          /\ \A i \in 1..(n - j + 1) : part[i] = items[j + i - 1]
      BY <1>1, <1>2, SubSeqProperties
    <2>. QED
      BY <1>1, <2>1
  <1>4. SubSeq(said, j, n) = [i \in 1..((n - j) + 1) |-> said[j + i - 1]]
    OBVIOUS
  <1>. HIDE DEF part, said
  <1>5. Said(part, h) = [i \in 1..((n - j) + 1) |->
                            [kind |-> part[i].kind, names |-> h[part[i].ref]]]
    BY <1>3 DEF Said
  <1>6. ASSUME NEW i \in 1..((n - j) + 1)
        PROVE  [kind |-> part[i].kind, names |-> h[part[i].ref]] = said[j + i - 1]
    <2>1. j + i - 1 \in 1..n /\ part[i] = items[j + i - 1]
      BY <1>1, <1>3
    <2>. QED
      BY <2>1, SaidFacts DEF said
  <1>. QED
    BY <1>3, <1>4, <1>5, <1>6 DEF part, said

\* The channel with one more request, and with one less.
LEMMA BufferAppended ==
    ASSUME NEW q \in Seq(SUBSET Called), NEW calls \in SUBSET Called
    PROVE  UNION {Append(q, calls)[i] : i \in 1..Len(Append(q, calls))}
              = (UNION {q[i] : i \in 1..Len(q)}) \cup calls
  <1>. DEFINE all == Append(q, calls)
  <1>1. /\ Len(all) = Len(q) + 1 /\ Len(q) \in Nat /\ all[Len(q) + 1] = calls
        /\ \A i \in 1..Len(q) : all[i] = q[i]
    BY AppendProperties
  <1>. HIDE DEF all
  <1>2. \A i \in 1..Len(all) : i \in 1..Len(q) \/ i = Len(q) + 1
    BY <1>1
  <1>3. Len(q) + 1 \in 1..Len(all) /\ \A i \in 1..Len(q) : i \in 1..Len(all)
    BY <1>1
  <1>4. UNION {all[i] : i \in 1..Len(all)} = (UNION {q[i] : i \in 1..Len(q)}) \cup calls
    BY <1>1, <1>2, <1>3
  <1>. QED
    BY <1>4 DEF all

LEMMA BufferTaken ==
    ASSUME NEW q \in Seq(SUBSET Called), q # <<>>
    PROVE  UNION {q[i] : i \in 1..Len(q)}
              = Head(q) \cup (UNION {Tail(q)[i] : i \in 1..Len(Tail(q))})
  <1>. DEFINE rest == Tail(q)
  <1>1. /\ Len(rest) = Len(q) - 1 /\ Len(q) \in Nat \ {0} /\ Head(q) = q[1]
        /\ \A i \in 1..Len(rest) : rest[i] = q[i + 1]
    BY HeadTailProperties, EmptySeq
  <1>. HIDE DEF rest
  <1>2. \A i \in 1..Len(q) : i = 1 \/ (i - 1 \in 1..Len(rest) /\ q[i] = rest[i - 1])
    <2>1. ASSUME NEW i \in 1..Len(q), i # 1
          PROVE  i - 1 \in 1..Len(rest) /\ q[i] = rest[i - 1]
      <3>1. i - 1 \in 1..Len(rest)
        BY <1>1, <2>1
      <3>2. (i - 1) + 1 = i
        BY <1>1, <2>1
      <3>. QED
        BY <1>1, <3>1, <3>2
    <2>. QED
      BY <2>1
  <1>3. 1 \in 1..Len(q) /\ \A i \in 1..Len(rest) : i + 1 \in 1..Len(q)
    BY <1>1
  <1>4. UNION {q[i] : i \in 1..Len(q)} = Head(q) \cup (UNION {rest[i] : i \in 1..Len(rest)})
    <2>1. ASSUME NEW x, NEW i \in 1..Len(q), x \in q[i]
          PROVE  x \in Head(q) \cup (UNION {rest[k] : k \in 1..Len(rest)})
      <3>1. CASE i = 1
        BY <1>1, <2>1, <3>1
      <3>2. CASE i # 1
        <4>1. PICK k \in 1..Len(rest) : q[i] = rest[k]
          BY <1>2, <3>2
        <4>. QED
          BY <2>1, <4>1
      <3>. QED
        BY <3>1, <3>2
    <2>2. ASSUME NEW x, NEW k \in 1..Len(rest), x \in rest[k]
          PROVE  x \in UNION {q[i] : i \in 1..Len(q)}
      <3>1. k + 1 \in 1..Len(q) /\ x \in q[k + 1]
        BY <1>1, <1>3, <2>2
      <3>. QED
        BY <3>1
    <2>3. ASSUME NEW x, x \in Head(q) PROVE x \in UNION {q[i] : i \in 1..Len(q)}
      BY <1>1, <1>3, <2>3
    <2>. QED
      BY <2>1, <2>2, <2>3
  <1>. QED
    BY <1>4 DEF rest

\* An item that is appended is at an address of its own.
LEMMA AppendedItem ==
    ASSUME Free, history \in Seq(Item), heap \in [Ref -> SUBSET (Served \cup Dep)],
           NEW kind \in {"calls", "write", "invcall"}, NEW names \in SUBSET (Served \cup Dep),
           Header = history, Distinct,
           heap' = Alloc(names), Header' = Append(history, [kind |-> kind, ref |-> NewRef])
    PROVE  Past' = Append(Past, [kind |-> kind, names |-> names]) /\ Distinct'
  <1>. DEFINE item == [kind |-> kind, ref |-> NewRef]
              all == Append(history, item)
  <1>1. item \in Item /\ item.ref = NewRef /\ item.kind = kind
    BY ExtendedTyped
  <1>2. NewRef \in Ref /\ NewRef \notin Live
    BY NewRefFacts
  <1>3. ASSUME NEW i \in 1..Len(history)
        PROVE  /\ history[i].ref \in Ref /\ history[i].ref # NewRef
               /\ heap'[history[i].ref] = heap[history[i].ref]
    <2>1. history[i].ref \in Ref \cap Live
      BY SaidFacts DEF Live, RefsOf
    <2>. QED
      BY <1>2, <2>1, AllocFacts
  <1>4. heap'[NewRef] = names
    BY AllocFacts
  <1>5. PICK h, g : h = heap /\ g = heap'
    OBVIOUS
  <1>6. Said(all, g) = Append(Said(history, h), [kind |-> item.kind, names |-> g[item.ref]])
    BY <1>1, <1>3, <1>5, SaidAppend
  <1>7. Past = Said(history, h) /\ Past' = Said(all, g)
    BY <1>5 DEF Past
  <1>8. /\ Len(all) = Len(history) + 1 /\ Len(history) \in Nat
        /\ \A i \in 1..Len(history) : all[i] = history[i]
        /\ all[Len(history) + 1] = item
    BY <1>1, AppendProperties
  <1>9. Distinct'
    <2>. HIDE DEF all, item
    <2>1. ASSUME NEW i \in 1..Len(all), NEW j \in 1..Len(all), all[i].ref = all[j].ref
          PROVE  i = j
      <3>1. /\ i \in 1..Len(history) \/ i = Len(history) + 1
            /\ j \in 1..Len(history) \/ j = Len(history) + 1
        BY <1>8
      <3>. QED
        BY <1>1, <1>3, <1>8, <2>1, <3>1 DEF Distinct
    <2>. QED
      BY <2>1 DEF Distinct, all, item
  <1>. QED
    BY <1>1, <1>4, <1>5, <1>6, <1>7, <1>9

\* A start that joins the call set at the end.
LEMMA SaidJoined ==
    ASSUME NEW items \in Seq(Item), NEW S, NEW h \in [Ref -> S], NEW ca, Len(items) > 0,
           \A i, j \in 1..Len(items) : items[i].ref = items[j].ref => i = j
    PROVE  Said(items, [h EXCEPT ![items[Len(items)].ref] = h[items[Len(items)].ref] \cup {ca}])
              = [Said(items, h) EXCEPT
                    ![Len(items)] = [kind |-> items[Len(items)].kind,
                                     names |-> h[items[Len(items)].ref] \cup {ca}]]
  <1>1. PICK last : last = Len(items)
    OBVIOUS
  <1>2. PICK ref, old : ref = items[last].ref /\ old = h[ref]
    OBVIOUS
  <1>3. PICK g : g = [h EXCEPT ![ref] = old \cup {ca}]
    OBVIOUS
  <1>4. PICK past, said : past = Said(items, h) /\ said = Said(items, g)
    OBVIOUS
  <1>5. /\ last \in Nat /\ last \in 1..last /\ ref \in Ref
        /\ \A i \in 1..last : items[i].ref \in Ref
    <2>1. last \in Nat /\ last > 0
      BY <1>1
    <2>2. last \in 1..last
      BY <2>1
    <2>3. \A i \in 1..last : items[i].ref \in Ref
      BY <1>1, SaidFacts
    <2>. QED
      BY <1>2, <2>1, <2>2, <2>3
  <1>6. g[ref] = old \cup {ca} /\ \A x \in Ref \ {ref} : g[x] = h[x]
    BY <1>3, <1>5
  <1>7. /\ past = [i \in 1..last |-> [kind |-> items[i].kind, names |-> h[items[i].ref]]]
        /\ said = [i \in 1..last |-> [kind |-> items[i].kind, names |-> g[items[i].ref]]]
    BY <1>1, <1>4 DEF Said
  <1>8. PICK item : item = [kind |-> items[last].kind, names |-> old \cup {ca}]
    OBVIOUS
  <1>9. \A i \in 1..last : said[i] = IF i = last THEN item ELSE past[i]
    <2>1. said[last] = item
      BY <1>2, <1>5, <1>6, <1>7, <1>8
    <2>2. ASSUME NEW i \in 1..last, i # last PROVE said[i] = past[i]
      <3>1. items[i].ref # ref
        BY <1>1, <1>2, <1>5, <2>2
      <3>2. g[items[i].ref] = h[items[i].ref]
        BY <1>5, <1>6, <2>2, <3>1
      <3>. QED
        BY <1>7, <2>2, <3>2
    <2>. QED
      BY <2>1, <2>2
  <1>10. said = [past EXCEPT ![last] = item]
    BY <1>7, <1>9
  <1>. QED
    BY <1>1, <1>2, <1>3, <1>4, <1>8, <1>10

-----------------------------------------------------------------------------
LEMMA AloneInit == Init => AloneInv
  <1>. SUFFICES ASSUME Init PROVE AloneInv
    OBVIOUS
  <1>1. /\ process = Idle /\ process.at = "idle" /\ ticker = Waiting /\ ticker.at = "wait"
        /\ history = <<>> /\ Header = <<>> /\ Past = <<>>
    BY DEF Init, Header, Past, Said, Idle, Waiting
  <1>2. Typed /\ IndexInv
    BY TypedInit, IndexInit
  <1>3. Distinct /\ Past \in Seq(HistoryItem)
    BY <1>1 DEF Distinct
  <1>4. Turns /\ OneItem /\ KeyMarked(process) /\ SaveGood(process) /\ TickGood
    BY <1>1 DEF Turns, OneItem, KeyMarked, SaveGood, TickGood
  <1>5. RunsSeen /\ LinesGood
    BY DEF Init, RunsSeen, LinesGood, Dropped
  <1>. QED
    BY <1>1, <1>2, <1>3, <1>4, <1>5 DEF AloneInv

\* Where Process and the ticker goroutine can stand.
LEMMA Kinds ==
    ASSUME AloneInv
    PROVE  /\ process.at \in {"idle", "pop", "save", "write", "buffer", "get", "mark", "add"}
           /\ process.at = "idle" => process = Idle
           /\ process.at = "pop" => process.key \in Key
           /\ process.at = "save" =>
                 process.entry \in Entry /\ process.used \subseteq Dep
           /\ process.at = "write" =>
                 process.next.at \in {"idle", "pop", "save"} /\ process.history \in Seq(Item)
           /\ process.at = "buffer" => process.calls \in SUBSET Called
           /\ ticker = Waiting \/ ticker.at \in {"drain", "remove", "append", "pop", "write"}
           /\ ticker = Waiting => ticker.at = "wait"
           /\ ticker.at \in {"drain", "remove"} => ticker.calls \in SUBSET Called
           /\ ticker.at = "append" => ticker \in Appends
           /\ ticker.at = "pop" => ticker \in Pops
           /\ ticker.at = "write" => ticker.history \in Seq(Item) /\ ticker.next \in Appends
           /\ ticker.at # "wait" => process.at \in {"idle", "buffer"}
           /\ Header \in Seq(Item) /\ history \in Seq(Item)
           /\ heap \in [Ref -> SUBSET (Served \cup Dep)] /\ buffer \in Seq(SUBSET Called)
  <1>1. /\ process.at \in {"idle", "pop", "save", "write", "buffer", "get", "mark", "add"}
        /\ process.at = "idle" => process = Idle
        /\ process.at = "pop" => process.key \in Key
        /\ process.at = "save" => process.entry \in Entry /\ process.used \subseteq Dep
        /\ process.at = "write" => process.next \in Reading
        /\ process.at = "buffer" => process.calls \in SUBSET Called
    BY DEF AloneInv, Typed, Shapes, Reading, Idle
  <1>2. process.at = "write" =>
           process.next.at \in {"idle", "pop", "save"} /\ process.history \in Seq(Item)
    BY <1>1 DEF AloneInv, Typed, Places, Reading, Idle
  <1>3. /\ ticker = Waiting \/ ticker.at \in {"drain", "remove", "append", "pop", "write"}
        /\ ticker = Waiting => ticker.at = "wait"
        /\ ticker.at \in {"drain", "remove"} => ticker.calls \in SUBSET Called
        /\ ticker.at = "append" => ticker \in Appends
        /\ ticker.at = "pop" => ticker \in Pops
        /\ ticker.at = "write" => ticker.history \in Seq(Item) /\ ticker.next \in Appends
    BY DEF AloneInv, Typed, Places, TickerTypes, Appends, Pops, Waiting, Writing
  <1>4. ticker.at # "wait" => process.at \in {"idle", "buffer"}
    BY <1>3 DEF AloneInv, Turns
  <1>5. /\ history \in Seq(Item) /\ heap \in [Ref -> SUBSET (Served \cup Dep)]
        /\ buffer \in Seq(SUBSET Called)
    BY DEF AloneInv, Typed, Places
  <1>6. Header \in Seq(Item)
    BY <1>2, <1>3, <1>5 DEF Header
  <1>. QED
    BY <1>1, <1>2, <1>3, <1>4, <1>5, <1>6

\* Between requests, nothing is being written.
LEMMA Between ==
    ASSUME AloneInv, OneByOne, process = Idle, Interleaved \/ ticker = Waiting
    PROVE  /\ ticker = Waiting /\ ticker.at = "wait" /\ process.at = "idle"
           /\ Header = history /\ Past = Deref(history)
           /\ Received = Buffered /\ Unmarked = Buffered
  BY DEF OneByOne, Waiting, Idle, Header, Past, Said, Deref, Received, Unmarked, InProcess, InTicker

\* Steps that leave history, runs and lines alone.
LEMMA QuietStep ==
    ASSUME AloneInv, (Typed /\ IndexInv)', UNCHANGED <<serving, since, line>>,
           Header' = Header, Past' = Past, Unmarked' = Unmarked, Received' = Received,
           \/ process' = process
           \/ process.at = "write" /\ process' = process.next
           \/ process'.at \notin {"pop", "save", "write"},
           Turns', OneItem', TickGood'
    PROVE  AloneInv'
  <1>1. Distinct' /\ Past' \in Seq(HistoryItem) /\ RunsSeen' /\ LinesGood'
    BY DEF AloneInv, Distinct, RunsSeen, LinesGood
  <1>2. KeyMarked(process)' /\ SaveGood(process)'
    <2>1. CASE process' = process
      BY <2>1 DEF AloneInv, KeyMarked, SaveGood
    <2>2. CASE process.at = "write" /\ process' = process.next
      BY <2>2 DEF AloneInv, KeyMarked, SaveGood
    <2>3. CASE process'.at \notin {"pop", "save", "write"}
      BY <2>3 DEF KeyMarked, SaveGood
    <2>. QED
      BY <2>1, <2>2, <2>3
  <1>3. (process.at = "write" => KeyMarked(process.next) /\ SaveGood(process.next))'
    <2>1. process' = process \/ process'.at # "write"
      BY Kinds
    <2>. QED
      BY <2>1 DEF AloneInv, KeyMarked, SaveGood
  <1>. QED
    BY <1>1, <1>2, <1>3 DEF AloneInv

\* A run starts.
LEMMA StartFollowed ==
    ASSUME AloneInv, OneByOne, Free, (Typed /\ IndexInv)', NEW r \in Rid, NEW ca \in Served,
           StartRequest(r, ca)
    PROVE  AloneInv'
  <1>1. /\ process = Idle /\ serving[r] = None /\ \A q \in Rid : serving[q] # ca
        /\ serving' = [serving EXCEPT ![r] = ca] /\ since' = [since EXCEPT ![r] = Received]
        /\ UNCHANGED <<history, deps, cached, buffer, ticker, line>>
        /\ Interleaved \/ ticker = Waiting
    BY DEF StartRequest, Request
  <1>2. /\ ticker = Waiting /\ ticker.at = "wait" /\ process.at = "idle"
        /\ Header = history /\ Past = Deref(history) /\ Received = Buffered /\ Unmarked = Buffered
    BY <1>1, Between
  <1>3. /\ history \in Seq(Item) /\ heap \in [Ref -> SUBSET (Served \cup Dep)]
        /\ Len(history) \in Nat /\ Past \in Seq(HistoryItem) /\ Distinct
    BY Kinds DEF AloneInv
  <1>6. Len(Past) = Len(history)
        /\ (Len(history) > 0 => Past[Len(history)].kind = history[Len(history)].kind)
    <2>1. Past = Said(history, heap)
      BY <1>2 DEF Past
    <2>2. Len(history) > 0 => Len(history) \in 1..Len(history)
      BY <1>3
    <2>3. PICK h : h = heap
      OBVIOUS
    <2>4. /\ Len(Said(history, h)) = Len(history)
          /\ \A i \in 1..Len(history) :
                Said(history, h)[i] = [kind |-> history[i].kind, names |-> h[history[i].ref]]
      BY <1>3, SaidFacts
    <2>5. PICK last, k, names : /\ last = Len(history) /\ k = history[last].kind
                               /\ names = h[history[last].ref]
      OBVIOUS
    <2>6. last > 0 => Said(history, h)[last] = [kind |-> k, names |-> names]
      BY <2>2, <2>4, <2>5
    <2>. QED
      BY <2>1, <2>3, <2>4, <2>5, <2>6
  <1>4. /\ Past' = AppendCall(Past, ca) /\ Distinct'
        /\ \/ process' = Idle
           \/ process'.at = "write" /\ process'.next = Idle
    <2>. DEFINE last == Len(history)
    <2>1. CASE last > 0 /\ IsCallArgSet(history[last])
      <3>. DEFINE g == [heap EXCEPT ![history[last].ref] = heap[history[last].ref] \cup {ca}]
      <3>1. heap' = g /\ process' = process
        BY <2>1 DEF StartRequest
      <3>2. Header' = history /\ Past' = Said(history, g)
        BY <1>1, <1>2, <3>1 DEF Header, Past
      <3>. DEFINE joined == [kind |-> "calls", names |-> Past[last].names \cup {ca}]
      <3>3. Said(history, g) = [Past EXCEPT ![last] = joined]
        <4>1. PICK h, S : h = heap /\ S = SUBSET (Served \cup Dep)
          OBVIOUS
        <4>2. \A i, j \in 1..Len(history) : history[i].ref = history[j].ref => i = j
          BY <1>2, <1>3 DEF Distinct
        <4>3. h \in [Ref -> S] /\ history \in Seq(Item) /\ Len(history) > 0
          BY <1>3, <2>1, <4>1
        <4>4. Said(history,
                   [h EXCEPT ![history[Len(history)].ref] = h[history[Len(history)].ref] \cup {ca}])
                 = [Said(history, h) EXCEPT
                       ![Len(history)] = [kind |-> history[Len(history)].kind,
                                          names |-> h[history[Len(history)].ref] \cup {ca}]]
          BY <4>2, <4>3, SaidJoined, ZenonT(60)
        <4>5. Past = Said(history, h) /\ history[last].kind = "calls"
          BY <1>2, <2>1, <4>1 DEF Past, IsCallArgSet
        <4>6. Said(history, h)[last].names = h[history[last].ref]
          <5>1. Len(history) \in 1..Len(history)
            BY <1>3, <4>3
          <5>2. PICK k, names : k = history[last].kind /\ names = h[history[last].ref]
            OBVIOUS
          <5>3. Said(history, h)[last] = [kind |-> k, names |-> names]
            BY <4>3, <5>1, <5>2, SaidFacts
          <5>. QED
            BY <5>2, <5>3
        <4>. QED
          BY <4>1, <4>4, <4>5, <4>6
      <3>. HIDE DEF g
      <3>4. AppendCall(Past, ca) = [Past EXCEPT ![last] = joined]
        <4>. DEFINE top == [Past[last] EXCEPT !.names = @ \cup {ca}]
        <4>1. Past[last] \in HistoryItem /\ Past[last].kind = "calls"
          <5>1. Len(Past) \in 1..Len(Past)
            BY <1>3, <1>6, <2>1
          <5>. QED
            BY <1>3, <1>6, <2>1, <5>1 DEF IsCallArgSet
        <4>2. top = joined
          <5>1. PICK item : item = Past[last]
            OBVIOUS
          <5>2. /\ [item EXCEPT !.names = @ \cup {ca}] \in HistoryItem
                /\ [item EXCEPT !.names = @ \cup {ca}].kind = "calls"
                /\ [item EXCEPT !.names = @ \cup {ca}].names = item.names \cup {ca}
            BY <4>1, <5>1 DEF HistoryItem
          <5>3. [item EXCEPT !.names = @ \cup {ca}]
                   = [kind |-> "calls", names |-> item.names \cup {ca}]
            BY <5>2, ItemFacts
          <5>. QED
            BY <5>1, <5>3
        <4>. HIDE DEF joined
        <4>. QED
          BY <1>2, <1>6, <2>1, <4>2 DEF AppendCall, IsCallArgSet
      <3>5. Distinct'
        BY <1>2, <1>3, <3>2 DEF Distinct
      <3>. QED
        BY <1>1, <3>1, <3>2, <3>3, <3>4, <3>5
    <2>2. CASE ~(last > 0 /\ IsCallArgSet(history[last]))
      <3>. DEFINE item == [kind |-> "calls", ref |-> NewRef]
      <3>1. /\ heap' = Alloc({ca}) /\ process' = Writing(Append(history, item), Idle)
        BY <2>2 DEF StartRequest, Extended
      <3>2. process'.at = "write" /\ process'.next = Idle /\ Header' = Append(history, item)
        BY <3>1 DEF Header, Writing
      <3>3. Past' = Append(Past, [kind |-> "calls", names |-> {ca}]) /\ Distinct'
        BY <1>2, <1>3, <3>1, <3>2, AppendedItem
      <3>4. AppendCall(Past, ca) = Append(Past, [kind |-> "calls", names |-> {ca}])
        BY <1>2, <1>6, <2>2 DEF AppendCall, IsCallArgSet
      <3>. QED
        BY <3>2, <3>3, <3>4
    <2>. QED
      BY <2>1, <2>2
  <1>5. Received' = Received /\ Unmarked' = Unmarked
    BY <1>1, <1>2, <1>4 DEF Received, Unmarked, Buffered, InProcess, InTicker, Idle, Waiting
  <1>12. Past' \in Seq(HistoryItem)
    BY <1>3, <1>4, AppendCallOwn
  <1>7. /\ serving'[r] = ca /\ since'[r] = Unmarked'
        /\ \A q \in Rid \ {r} : serving'[q] = serving[q] /\ since'[q] = since[q]
    BY <1>1, <1>2, <1>5 DEF AloneInv, Typed, Shapes, Places
  <1>8. RunsSeen'
    <2>1. ASSUME NEW p \in Rid, NEW q \in Rid, serving'[p] # None, serving'[p] = serving'[q]
          PROVE  p = q
      BY <1>1, <1>7, <2>1 DEF AloneInv, RunsSeen
    <2>2. ASSUME NEW q \in Rid, serving'[q] # None
          PROVE  /\ StartsOf(Past', serving'[q]) # {}
                 /\ since'[q] \subseteq InvalidatedSince(Past', serving'[q]) \cup Unmarked'
      <3>1. CASE q = r
        BY <1>3, <1>4, <1>7, <3>1, AppendCallOwn
      <3>2. CASE q # r
        <4>1. serving[q] # ca /\ serving[q] # None
          BY <1>1, <1>7, <2>2, <3>2
        <4>2. /\ StartsOf(Past', serving[q]) = StartsOf(Past, serving[q])
              /\ InvalidatedSince(Past', serving[q]) = InvalidatedSince(Past, serving[q])
          BY <1>3, <1>4, <4>1, AppendCallOther
        <4>. QED
          BY <1>5, <1>7, <3>2, <4>1, <4>2 DEF AloneInv, RunsSeen
      <3>. QED
        BY <3>1, <3>2
    <2>. QED
      BY <2>1, <2>2 DEF RunsSeen
  <1>9. Turns' /\ OneItem' /\ TickGood'
    BY <1>1, <1>2 DEF Turns, OneItem, TickGood
  <1>10. /\ KeyMarked(process)' /\ SaveGood(process)'
         /\ (process.at = "write" => KeyMarked(process.next) /\ SaveGood(process.next))'
    BY <1>4 DEF KeyMarked, SaveGood, Idle
  <1>11. LinesGood'
    BY <1>1, <1>5 DEF AloneInv, LinesGood
  <1>. QED
    BY <1>4, <1>12, <1>8, <1>9, <1>10, <1>11 DEF AloneInv

LEMMA AbandonFollowed ==
    ASSUME AloneInv, (Typed /\ IndexInv)', NEW r \in Rid, Abandon(r)
    PROVE  AloneInv'
  <1>1. /\ serving' = [serving EXCEPT ![r] = None] /\ since' = [since EXCEPT ![r] = {}]
        /\ UNCHANGED <<history, heap, deps, cached, buffer, process, ticker, line>>
    BY DEF Abandon, shared
  <1>2. Header' = Header /\ Past' = Past /\ Received' = Received /\ Unmarked' = Unmarked
    BY <1>1 DEF Header, Past, Received, Unmarked, Buffered, InProcess, InTicker
  <1>3. \A q \in Rid : serving'[q] # None =>
           q # r /\ serving'[q] = serving[q] /\ since'[q] = since[q]
    BY <1>1 DEF AloneInv, Typed, Shapes, Places
  <1>4. RunsSeen'
    <2>1. ASSUME NEW p \in Rid, NEW q \in Rid, serving'[p] # None, serving'[p] = serving'[q]
          PROVE  p = q
      <3>1. serving[p] # None /\ serving[p] = serving[q]
        BY <1>3, <2>1
      <3>. QED
        BY <3>1 DEF AloneInv, RunsSeen
    <2>2. ASSUME NEW q \in Rid, serving'[q] # None
          PROVE  /\ StartsOf(Past', serving'[q]) # {}
                 /\ since'[q] \subseteq InvalidatedSince(Past', serving'[q]) \cup Unmarked'
      BY <1>2, <1>3, <2>2 DEF AloneInv, RunsSeen
    <2>. QED
      BY <2>1, <2>2 DEF RunsSeen
  <1>5. /\ KeyMarked(process)' /\ SaveGood(process)'
        /\ (process.at = "write" => KeyMarked(process.next) /\ SaveGood(process.next))'
    <2>1. ASSUME NEW p, KeyMarked(p) PROVE KeyMarked(p)'
      BY <1>2, <1>3, <2>1 DEF KeyMarked
    <2>. QED
      BY <1>1, <1>2, <1>3 DEF AloneInv, KeyMarked, SaveGood
  <1>6. Distinct' /\ Past' \in Seq(HistoryItem) /\ LinesGood' /\ TickGood' /\ Turns' /\ OneItem'
    BY <1>1, <1>2 DEF AloneInv, Distinct, LinesGood, TickGood, Turns, OneItem
  <1>. QED
    BY <1>4, <1>5, <1>6 DEF AloneInv

\* validCall deletes a start where it stands.
LEMMA SaidRemoved ==
    ASSUME NEW items \in Seq(Item), NEW h, NEW g, NEW ca,
           Said(items, h) \in Seq(HistoryItem),
           \A i \in 1..Len(items) :
              g[items[i].ref] = RemoveStart(Said(items, h), ca)[i].names
    PROVE  Said(items, g) = RemoveStart(Said(items, h), ca)
  <1>. DEFINE rest == RemoveStart(Said(items, h), ca)
  <1>1. rest \in Seq(HistoryItem) /\ Len(rest) = Len(items) /\ Len(items) \in Nat
    BY RemoveStartFacts, SaidFacts
  <1>2. ASSUME NEW i \in 1..Len(items)
        PROVE  rest[i].kind = items[i].kind
    <2>1. PICK past, item : past = Said(items, h) /\ item = past[i]
      OBVIOUS
    <2>2. PICK k, names : k = items[i].kind /\ names = h[items[i].ref]
      OBVIOUS
    <2>3. item = [kind |-> k, names |-> names] /\ Len(past) = Len(items) /\ item \in HistoryItem
      <3>1. Len(past) = Len(items) /\ past[i] = [kind |-> k, names |-> names]
        BY <2>1, <2>2, SaidFacts
      <3>2. past[i] \in HistoryItem
        BY <2>1, <3>1
      <3>. QED
        BY <2>1, <3>1, <3>2
    <2>4. RemoveStart(past, ca)[i] \in {item, [item EXCEPT !.names = @ \ {ca}]}
      BY <2>1, <2>3 DEF RemoveStart
    <2>5. [item EXCEPT !.names = @ \ {ca}].kind = item.kind
      BY <2>3 DEF HistoryItem
    <2>6. item.kind = k
      BY <2>3
    <2>. QED
      BY <2>1, <2>2, <2>4, <2>5, <2>6
  <1>. HIDE DEF rest
  <1>3. \A i \in 1..Len(items) : g[items[i].ref] = rest[i].names
    BY DEF rest
  <1>4. \A i \in 1..Len(items) : rest[i] = [kind |-> rest[i].kind, names |-> rest[i].names]
    BY <1>1, ItemFacts
  <1>5. \A i \in 1..Len(items) : rest[i] = [kind |-> items[i].kind, names |-> g[items[i].ref]]
    BY <1>2, <1>3, <1>4
  <1>6. rest = [i \in 1..Len(items) |-> rest[i]]
    BY <1>1
  <1>7. Said(items, g) = rest
    BY <1>5, <1>6 DEF Said
  <1>. QED
    BY <1>7 DEF rest

\* A run ends; Process forgets its start, and may go on to save what it used.
LEMMA EndFollowed ==
    ASSUME AloneInv, OneByOne, (Typed /\ IndexInv)', NEW r \in Rid, NEW caller \in Caller,
           NEW used \in SUBSET Dep, EndRequest(r, caller, used)
    PROVE  AloneInv'
  <1>. DEFINE ca == serving[r]
              next == IF ValidCall(Deref(history), ca, used)
                      THEN Saving(<<caller, ca>>, used, since[r] \cap used) ELSE Idle
              rest == RemoveStart(Deref(history), ca)
  <1>1. /\ process = Idle /\ (Interleaved \/ ticker = Waiting)
        /\ serving[r] # None
        /\ serving' = [serving EXCEPT ![r] = None] /\ since' = [since EXCEPT ![r] = {}]
        /\ UNCHANGED <<history, deps, cached, buffer, ticker, line>>
        /\ \A ref \in Ref :
              heap'[ref] = IF \E i \in 1..Len(history) : history[i].ref = ref
                           THEN rest[CHOOSE i \in 1..Len(history) : history[i].ref = ref].names
                           ELSE heap[ref]
    BY DEF EndRequest
  <1>2. /\ ticker = Waiting /\ ticker.at = "wait" /\ process.at = "idle"
        /\ Header = history /\ Past = Deref(history) /\ Received = Buffered /\ Unmarked = Buffered
    BY <1>1, Between
  <1>3. /\ history \in Seq(Item) /\ Len(history) \in Nat /\ Past \in Seq(HistoryItem)
        /\ \A i, j \in 1..Len(history) : history[i].ref = history[j].ref => i = j
    BY <1>2, Kinds DEF AloneInv, Distinct
  <1>4. Said(history, heap') = rest
    <2>1. PICK h, g, cb : h = heap /\ g = heap' /\ cb = ca
      OBVIOUS
    <2>2. Said(history, h) = Deref(history) /\ Past = Said(history, h)
      BY <1>2, <2>1 DEF Past
    <2>3. ASSUME NEW i \in 1..Len(history)
          PROVE  g[history[i].ref] = RemoveStart(Said(history, h), cb)[i].names
      <3>1. history[i].ref \in Ref
        BY <1>3, SaidFacts
      <3>2. (CHOOSE j \in 1..Len(history) : history[j].ref = history[i].ref) = i
        BY <1>3
      <3>3. heap'[history[i].ref] = rest[i].names
        <4>. HIDE DEF rest
        <4>. QED
          BY <1>1, <3>1, <3>2
      <3>. QED
        BY <2>1, <2>2, <3>3
    <2>4. Said(history, h) \in Seq(HistoryItem)
      BY <1>3, <2>2
    <2>5. Said(history, g) = RemoveStart(Said(history, h), cb)
      BY <1>3, <2>3, <2>4, SaidRemoved
    <2>. QED
      BY <2>1, <2>2, <2>5
  <1>5. rest \in Seq(HistoryItem) /\ Len(rest) = Len(history)
    <2>1. Len(Past) = Len(history)
      BY <1>3, <1>2, SaidFacts DEF Past
    <2>. QED
      BY <1>2, <1>3, <2>1, RemoveStartFacts
  <1>6. next.at \in {"idle", "save"}
    BY DEF Saving, Idle
  <1>. HIDE DEF next
  <1>7. /\ \/ process' = next
           \/ process'.at = "write" /\ process'.next = next
        /\ Past' \in Forgotten(Past, ca)
        /\ Distinct'
    <2>. HIDE DEF rest
    <2>1. CASE process' = next
      <3>1. Header' = history
        BY <1>1, <1>2, <1>6, <2>1 DEF Header
      <3>2. Past' = rest
        BY <1>4, <3>1 DEF Past
      <3>3. rest \in Forgotten(Past, ca)
        BY <1>2 DEF Forgotten, rest
      <3>. QED
        BY <1>3, <2>1, <3>1, <3>2, <3>3 DEF Distinct
    <2>2. ASSUME NEW j \in 1..(Len(history) + 1), CollectsFrom(rest, j),
                 StartsOf(Deref(history), ca) # {},
                 process' = Writing(SubSeq(history, j, Len(history)), next)
          PROVE  /\ process'.at = "write" /\ process'.next = next
                 /\ Past' \in Forgotten(Past, ca)
                 /\ Distinct'
      <3>. DEFINE part == SubSeq(history, j, Len(history))
      <3>1. process'.at = "write" /\ process'.next = next /\ Header' = part
        BY <2>2 DEF Writing, Header
      <3>2. PICK g : g = heap'
        OBVIOUS
      <3>3. /\ Said(part, g) = SubSeq(Said(history, g), j, Len(history))
            /\ Len(part) = (Len(history) - j) + 1
            /\ \A i \in 1..((Len(history) - j) + 1) : part[i] = history[j + i - 1]
        BY <1>3, SaidFrom
      <3>4. Past' = SubSeq(rest, j, Len(rest))
        BY <1>4, <1>5, <3>1, <3>2, <3>3 DEF Past
      <3>5. SubSeq(rest, j, Len(rest)) \in Forgotten(Past, ca)
        BY <1>2, <1>5, <2>2 DEF Forgotten, rest
      <3>6. Distinct'
        <4>. HIDE DEF part
        <4>1. ASSUME NEW i \in 1..Len(part), NEW k \in 1..Len(part), part[i].ref = part[k].ref
              PROVE  i = k
          <5>1. j + i - 1 \in 1..Len(history) /\ j + k - 1 \in 1..Len(history)
            BY <1>3, <3>3
          <5>2. part[i] = history[j + i - 1] /\ part[k] = history[j + k - 1]
            BY <3>3
          <5>3. j + i - 1 = j + k - 1
            BY <1>3, <4>1, <5>1, <5>2
          <5>. QED
            BY <1>3, <3>3, <5>3
        <4>. QED
          BY <3>1, <4>1 DEF Distinct
      <3>. QED
        BY <3>1, <3>4, <3>5, <3>6
    <2>3. \/ process' = next
          \/ /\ StartsOf(Deref(history), ca) # {}
             /\ \E j \in 1..(Len(history) + 1) :
                   /\ CollectsFrom(rest, j)
                   /\ process' = Writing(SubSeq(history, j, Len(history)), next)
      BY DEF EndRequest, next, rest
    <2>. QED
      BY <2>1, <2>2, <2>3
  <1>8. /\ Past' \in Seq(HistoryItem)
        /\ \A cb : cb # ca /\ StartsOf(Past, cb) # {} =>
              /\ StartsOf(Past', cb) # {}
              /\ InvalidatedSince(Past', cb) = InvalidatedSince(Past, cb)
    BY <1>3, <1>7, ForgottenFacts
  <1>9. Received' = Received /\ Unmarked' = Unmarked
    BY <1>1, <1>2, <1>6, <1>7 DEF Received, Unmarked, Buffered, InProcess, InTicker
  <1>10. \A q \in Rid : serving'[q] # None =>
            q # r /\ serving'[q] = serving[q] /\ since'[q] = since[q]
    BY <1>1 DEF AloneInv, Typed, Shapes, Places
  <1>11. RunsSeen'
    <2>1. ASSUME NEW p \in Rid, NEW q \in Rid, serving'[p] # None, serving'[p] = serving'[q]
          PROVE  p = q
      <3>1. serving[p] # None /\ serving[p] = serving[q]
        BY <1>10, <2>1
      <3>. QED
        BY <3>1 DEF AloneInv, RunsSeen
    <2>2. ASSUME NEW q \in Rid, serving'[q] # None
          PROVE  /\ StartsOf(Past', serving'[q]) # {}
                 /\ since'[q] \subseteq InvalidatedSince(Past', serving'[q]) \cup Unmarked'
      <3>1. /\ serving[q] # None /\ serving[q] # ca
            /\ StartsOf(Past, serving[q]) # {}
            /\ since[q] \subseteq InvalidatedSince(Past, serving[q]) \cup Unmarked
        BY <1>1, <1>10, <2>2 DEF AloneInv, RunsSeen
      <3>. QED
        BY <1>8, <1>9, <1>10, <2>2, <3>1
    <2>. QED
      BY <2>1, <2>2 DEF RunsSeen
  <1>12. next.at = "save" => next.stale \subseteq next.used \cap Received'
    <2>1. ASSUME ValidCall(Deref(history), ca, used)
          PROVE  since[r] \cap used \subseteq Received'
      <3>1. since[r] \subseteq InvalidatedSince(Past, ca) \cup Unmarked
        BY <1>1 DEF AloneInv, RunsSeen
      <3>2. InvalidatedSince(Past, ca) \cap used = {}
        BY <1>2, <2>1 DEF ValidCall
      <3>. QED
        BY <1>2, <1>9, <3>1, <3>2
    <2>. QED
      BY <2>1 DEF next, Saving, Idle
  <1>13. /\ KeyMarked(process)' /\ SaveGood(process)'
         /\ (process.at = "write" => KeyMarked(process.next) /\ SaveGood(process.next))'
    BY <1>6, <1>7, <1>12 DEF KeyMarked, SaveGood
  <1>14. LinesGood' /\ TickGood' /\ Turns' /\ OneItem'
    BY <1>1, <1>2, <1>9 DEF AloneInv, LinesGood, TickGood, Turns, OneItem
  <1>. QED
    BY <1>7, <1>8, <1>11, <1>13, <1>14 DEF AloneInv

\* A write is marked before its key is popped.
LEMMA KeyFollowed ==
    ASSUME AloneInv, OneByOne, Free, (Typed /\ IndexInv)', NEW k \in Key, InvalidateKeyRequest(k)
    PROVE  AloneInv'
  <1>. DEFINE item == [kind |-> "write", ref |-> NewRef]
              said == [kind |-> "write", names |-> {k}]
  <1>1. /\ process = Idle /\ (Interleaved \/ ticker = Waiting)
        /\ heap' = Alloc({k}) /\ process' = Writing(Append(history, item), [at |-> "pop", key |-> k])
        /\ UNCHANGED <<history, deps, cached, buffer, ticker, serving, since, line>>
    BY DEF InvalidateKeyRequest, Request, Extended, ghosts
  <1>2. /\ ticker = Waiting /\ ticker.at = "wait" /\ process.at = "idle"
        /\ Header = history /\ Received = Buffered /\ Unmarked = Buffered
    BY <1>1, Between
  <1>3. /\ process'.at = "write" /\ process'.next = [at |-> "pop", key |-> k]
        /\ Header' = Append(history, item)
    BY <1>1 DEF Writing, Header
  <1>4. Past' = Append(Past, said) /\ Distinct'
    BY <1>1, <1>2, <1>3, Kinds, AppendedItem DEF AloneInv, Dep
  <1>5. Past \in Seq(HistoryItem) /\ said \in HistoryItem /\ ~IsCallArgSet(said) /\ said.names = {k}
    BY DEF AloneInv, HistoryItem, Dep, IsCallArgSet
  <1>. HIDE DEF said
  <1>6. /\ Past' \in Seq(HistoryItem)
        /\ \A ca : /\ StartsOf(Past', ca) = StartsOf(Past, ca)
                   /\ InvalidatedSince(Past', ca) = InvalidatedSince(Past, ca) \cup {k}
    BY <1>4, <1>5, AppendInvalidation
  <1>7. Received' = Received /\ Unmarked' = Unmarked
    BY <1>1, <1>2, <1>3 DEF Received, Unmarked, Buffered, InProcess, InTicker
  <1>8. RunsSeen'
    BY <1>1, <1>6, <1>7 DEF AloneInv, RunsSeen
  <1>9. /\ KeyMarked(process)' /\ SaveGood(process)'
        /\ (process.at = "write" => KeyMarked(process.next) /\ SaveGood(process.next))'
    BY <1>3, <1>6 DEF KeyMarked, SaveGood
  <1>10. LinesGood' /\ TickGood' /\ Turns' /\ OneItem'
    BY <1>1, <1>2, <1>7 DEF AloneInv, LinesGood, TickGood, Turns, OneItem
  <1>. QED
    BY <1>4, <1>6, <1>8, <1>9, <1>10 DEF AloneInv

\* Invalidations of calls come in: what used them is stale from now on.
LEMMA CallsFollowed ==
    ASSUME AloneInv, OneByOne, (Typed /\ IndexInv)', NEW calls \in SUBSET Called,
           InvalidateCallsRequest(calls)
    PROVE  AloneInv'
  <1>1. /\ process = Idle /\ (Interleaved \/ ticker = Waiting)
        /\ process' = [at |-> "buffer", calls |-> calls] /\ Noticed(calls)
        /\ UNCHANGED <<history, heap, deps, cached, buffer, ticker, serving>>
        /\ line' = [e \in Entry |-> [line[e] EXCEPT !.stale = @ \cup (line[e].used \cap calls)]]
    BY DEF InvalidateCallsRequest, Request, shared
  <1>2. /\ ticker = Waiting /\ ticker.at = "wait" /\ process.at = "idle"
        /\ Header = history /\ Received = Buffered /\ Unmarked = Buffered
    BY <1>1, Between
  <1>3. Header' = Header /\ Past' = Past
    BY <1>1, <1>2 DEF Header, Past
  <1>4. Received' = Received \cup calls /\ Unmarked' = Unmarked \cup calls
    BY <1>1, <1>2 DEF Received, Unmarked, Buffered, InProcess, InTicker
  <1>5. RunsSeen'
    BY <1>1, <1>3, <1>4 DEF AloneInv, RunsSeen, Noticed
  <1>6. LinesGood'
    <2>1. ASSUME NEW e \in Entry
          PROVE  /\ line'[e].held = line[e].held /\ line'[e].used = line[e].used
                 /\ line'[e].stale = line[e].stale \cup (line[e].used \cap calls)
      <3>1. line[e] \in [held : BOOLEAN, used : SUBSET Dep, stale : SUBSET Dep]
        BY DEF AloneInv, Typed, Shapes
      <3>2. line'[e] = [line[e] EXCEPT !.stale = @ \cup (line[e].used \cap calls)]
        BY <1>1
      <3>. QED
        BY <3>1, <3>2
    <2>2. ASSUME NEW e \in Entry
          PROVE  /\ ~line'[e].held => line'[e].used = {}
                 /\ line'[e].stale \subseteq line'[e].used \cap Received'
      <3>1. /\ ~line[e].held => line[e].used = {}
            /\ line[e].stale \subseteq line[e].used \cap Received
        BY DEF AloneInv, LinesGood
      <3>. QED
        BY <1>4, <2>1, <3>1
    <2>. QED
      BY <2>2 DEF LinesGood
  <1>7. /\ KeyMarked(process)' /\ SaveGood(process)'
        /\ (process.at = "write" => KeyMarked(process.next) /\ SaveGood(process.next))'
    BY <1>1 DEF KeyMarked, SaveGood
  <1>8. /\ TickGood' /\ Turns' /\ OneItem' /\ Distinct' /\ Past' \in Seq(HistoryItem)
    BY <1>1, <1>2, <1>3 DEF AloneInv, TickGood, Turns, OneItem, Distinct
  <1>. QED
    BY <1>5, <1>6, <1>7, <1>8 DEF AloneInv

-----------------------------------------------------------------------------
\* Requests; one that saves calls leaves no mark.
LEMMA RequestFollowed ==
    ASSUME AloneInv, OneByOne, Free, (Typed /\ IndexInv)', NewRequest
    PROVE  AloneInv'
  <1>1. ASSUME NEW calls \in SUBSET Called, SaveCallsRequest(calls) PROVE AloneInv'
    <2>1. UNCHANGED <<history, heap, deps, buffer, process, ticker, serving, since, line>>
      BY <1>1 DEF SaveCallsRequest, ghosts
    <2>2. Header' = Header /\ Past' = Past /\ Received' = Received /\ Unmarked' = Unmarked
      BY <2>1 DEF Header, Past, Received, Unmarked, Buffered, InProcess, InTicker
    <2>3. Turns' /\ OneItem' /\ TickGood'
      BY <2>1 DEF AloneInv, Turns, OneItem, TickGood
    <2>. QED
      BY <2>1, <2>2, <2>3, QuietStep
  <1>. QED
    BY <1>1, StartFollowed, AbandonFollowed, EndFollowed, KeyFollowed, CallsFollowed
       DEF NewRequest

\* The steps of Process within a request; the ticker goroutine waits, but for
\* the last.
LEMMA ProcessFollowed ==
    ASSUME AloneInv, OneByOne, (Typed /\ IndexInv)', Process
    PROVE  AloneInv'
  <1>1. ASSUME ticker.at = "wait", process.at \notin {"write", "buffer"},
               process'.at \notin {"write", "buffer"}, UNCHANGED <<history, heap, buffer, ticker>>
        PROVE  /\ Header' = Header /\ Past' = Past
               /\ Received' = Received /\ Unmarked' = Unmarked
    BY <1>1 DEF Header, Past, Received, Unmarked, Buffered, InProcess, InTicker
  <1>2. ASSUME process.at \in {"pop", "save", "get", "mark", "add", "write"}
        PROVE  ticker = Waiting /\ ticker.at = "wait"
    BY <1>2, Kinds DEF AloneInv, Turns
  <1>3. ASSUME ticker = Waiting, ticker' = ticker
        PROVE  Turns' /\ OneItem' /\ TickGood'
    BY <1>3, Kinds DEF Turns, OneItem, TickGood
  <1>4. CASE WriteHistory
    <2>1. /\ process.at = "write" /\ history' = process.history /\ process' = process.next
          /\ UNCHANGED <<heap, deps, buffer, ticker, serving, since, line>>
      BY <1>4 DEF WriteHistory, ghosts
    <2>2. process.next.at \in {"idle", "pop", "save"}
      BY <2>1, Kinds
    <2>3. ticker = Waiting /\ ticker.at = "wait"
      BY <1>2, <2>1
    <2>4. Header' = Header /\ Past' = Past
      BY <2>1, <2>2, <2>3 DEF Header, Past
    <2>5. Received' = Received /\ Unmarked' = Unmarked
      BY <2>1, <2>2, <2>3 DEF Received, Unmarked, Buffered, InProcess, InTicker
    <2>. QED
      BY <1>3, <2>1, <2>3, <2>4, <2>5, QuietStep
  <1>5. CASE PopKeyDeps
    <2>1. /\ process.at = "pop" /\ process' = Idle /\ deps' = PopDeps(deps, {process.key})
          /\ Noticed({process.key})
          /\ line' = [e \in Entry |-> IF e \in Popped(deps, {process.key}) THEN Dropped
                         ELSE [line[e] EXCEPT !.stale = @ \cup (line[e].used \cap {process.key})]]
          /\ UNCHANGED <<history, heap, buffer, ticker, serving>>
      BY <1>5 DEF PopKeyDeps
    <2>2. process'.at = "idle" /\ ticker = Waiting /\ ticker.at = "wait" /\ process.key \in Key
      BY <1>2, <2>1, Kinds DEF Idle
    <2>3. /\ Header' = Header /\ Past' = Past /\ Received' = Received /\ Unmarked' = Unmarked
      BY <1>1, <2>1, <2>2
    <2>4. RunsSeen'
      BY <2>1, <2>3 DEF AloneInv, RunsSeen, Noticed, KeyMarked
    <2>5. ASSUME NEW e \in Entry
          PROVE  /\ ~line'[e].held => line'[e].used = {}
                 /\ line'[e].stale \subseteq line'[e].used \cap Received'
      <3>1. /\ ~line[e].held => line[e].used = {}
            /\ line[e].stale \subseteq line[e].used \cap Received
        BY DEF AloneInv, LinesGood
      <3>2. CASE e \in Popped(deps, {process.key})
        BY <2>1, <3>2 DEF Dropped
      <3>3. CASE e \notin Popped(deps, {process.key})
        <4>1. e \notin deps[process.key]
          BY <3>3 DEF Popped
        <4>2. Owed(e) = {} /\ ~Dropping(e)
          BY <2>1, <2>2 DEF Owed, Storing, Dropping
        <4>3. process.key \notin line[e].used
          BY <3>1, <4>1, <4>2 DEF AloneInv, IndexInv, Indexed
        <4>4. line[e] \in [held : BOOLEAN, used : SUBSET Dep, stale : SUBSET Dep]
          BY DEF AloneInv, Typed, Shapes
        <4>5. line'[e] = [line[e] EXCEPT !.stale = @ \cup (line[e].used \cap {process.key})]
          BY <2>1, <3>3
        <4>6. /\ line'[e].held = line[e].held /\ line'[e].used = line[e].used
              /\ line'[e].stale = line[e].stale
          BY <4>3, <4>4, <4>5
        <4>. QED
          BY <2>3, <3>1, <4>6
      <3>. QED
        BY <3>2, <3>3
    <2>6. LinesGood'
      BY <2>5 DEF LinesGood
    <2>7. /\ KeyMarked(process)' /\ SaveGood(process)'
          /\ (process.at = "write" => KeyMarked(process.next) /\ SaveGood(process.next))'
      BY <2>2 DEF KeyMarked, SaveGood
    <2>8. Distinct' /\ Past' \in Seq(HistoryItem)
      BY <2>3 DEF AloneInv, Distinct
    <2>. QED
      BY <1>3, <2>1, <2>2, <2>4, <2>6, <2>7, <2>8 DEF AloneInv
  <1>6. CASE SendSave
    <2>1. /\ process.at = "save"
          /\ line' = [line EXCEPT ![process.entry] =
                         [held |-> TRUE, used |-> process.used, stale |-> process.stale]]
          /\ process' = Store(process.used \cap Called)
          /\ UNCHANGED <<history, heap, buffer, ticker, serving, since>>
      BY <1>6 DEF SendSave
    <2>2. process'.at \in {"idle", "get"} /\ ticker = Waiting /\ ticker.at = "wait"
      BY <1>2, <2>1 DEF Store, Idle
    <2>3. Header' = Header /\ Past' = Past /\ Received' = Received /\ Unmarked' = Unmarked
      BY <1>1, <2>1, <2>2
    <2>4. RunsSeen'
      BY <2>1, <2>3 DEF AloneInv, RunsSeen
    <2>5. ASSUME NEW e \in Entry
          PROVE  /\ ~line'[e].held => line'[e].used = {}
                 /\ line'[e].stale \subseteq line'[e].used \cap Received'
      <3>1. /\ ~line[e].held => line[e].used = {}
            /\ line[e].stale \subseteq line[e].used \cap Received
        BY DEF AloneInv, LinesGood
      <3>2. process.stale \subseteq process.used \cap Received
        BY <2>1 DEF AloneInv, SaveGood
      <3>3. line'[e] = IF e = process.entry
                       THEN [held |-> TRUE, used |-> process.used, stale |-> process.stale]
                       ELSE line[e]
        BY <2>1 DEF AloneInv, Typed, Shapes
      <3>4. CASE e = process.entry
        BY <2>3, <3>2, <3>3, <3>4
      <3>5. CASE e # process.entry
        BY <2>3, <3>1, <3>3, <3>5
      <3>. QED
        BY <3>4, <3>5
    <2>6. LinesGood'
      BY <2>5 DEF LinesGood
    <2>7. /\ KeyMarked(process)' /\ SaveGood(process)'
          /\ (process.at = "write" => KeyMarked(process.next) /\ SaveGood(process.next))'
      BY <2>2 DEF KeyMarked, SaveGood
    <2>8. Distinct' /\ Past' \in Seq(HistoryItem)
      BY <2>3 DEF AloneInv, Distinct
    <2>. QED
      BY <1>3, <2>1, <2>2, <2>4, <2>6, <2>7, <2>8 DEF AloneInv
  <1>7. ASSUME process.at \in {"get", "mark", "add"}, process'.at \in {"idle", "get", "mark", "add"},
               UNCHANGED <<history, heap, buffer, ticker, serving, since, line>>
        PROVE  AloneInv'
    <2>1. ticker = Waiting /\ ticker.at = "wait"
      BY <1>2, <1>7
    <2>2. Header' = Header /\ Past' = Past /\ Received' = Received /\ Unmarked' = Unmarked
      BY <1>1, <1>7, <2>1
    <2>. QED
      BY <1>3, <1>7, <2>1, <2>2, QuietStep
  <1>8. ASSUME NEW d \in Called, GetCallDep(d) PROVE AloneInv'
    BY <1>7, <1>8 DEF GetCallDep, shared, ghosts
  <1>9. CASE MarkCallDep
    <2>1. process \in [at : {"mark"}, entry : Entry, todo : SUBSET Called, dep : Called,
                       callers : SUBSET Entry]
      BY <1>9 DEF MarkCallDep, AloneInv, Typed, Shapes, Reading, Idle
    <2>2. process'.at = "add"
      BY <1>9, <2>1 DEF MarkCallDep
    <2>. QED
      BY <1>7, <1>9, <2>2 DEF MarkCallDep, ghosts
  <1>10. CASE AddCallDep
    <2>1. process'.at \in {"idle", "get"}
      BY <1>10 DEF AddCallDep, Store, Idle
    <2>. QED
      BY <1>7, <1>10, <2>1 DEF AddCallDep, ghosts
  <1>11. CASE BufferCalls
    <2>1. /\ process.at = "buffer" /\ buffer' = Append(buffer, process.calls)
          /\ process' = Idle /\ process'.at = "idle"
          /\ UNCHANGED <<history, heap, deps, ticker, serving, since, line>>
      BY <1>11 DEF BufferCalls, ghosts, Idle
    <2>2. buffer \in Seq(SUBSET Called) /\ process.calls \in SUBSET Called
      BY <2>1, Kinds
    <2>3. Header' = Header /\ Past' = Past
      BY <2>1 DEF Header, Past
    <2>4. Buffered' = Buffered \cup process.calls
      <3>1. PICK q, calls : q = buffer /\ calls = process.calls
        OBVIOUS
      <3>2. UNION {Append(q, calls)[i] : i \in 1..Len(Append(q, calls))}
               = (UNION {q[i] : i \in 1..Len(q)}) \cup calls
        BY <2>2, <3>1, BufferAppended
      <3>. QED
        BY <2>1, <3>1, <3>2 DEF Buffered
    <2>5. InProcess = process.calls /\ InProcess' = {} /\ InTicker' = InTicker
      BY <2>1 DEF InProcess, InTicker
    <2>6. Received' = Received /\ Unmarked' = Unmarked
      BY <2>1, <2>4, <2>5 DEF Received, Unmarked
    <2>7. Turns' /\ OneItem' /\ TickGood'
      BY <2>1 DEF AloneInv, Turns, OneItem, TickGood
    <2>. QED
      BY <2>1, <2>3, <2>6, <2>7, QuietStep
  <1>. QED
    BY <1>4, <1>5, <1>6, <1>8, <1>9, <1>10, <1>11 DEF Process

\* An item for the one name there is.
LEMMA AppendFollowed ==
    ASSUME AloneInv, OneByOne, Free, (Typed /\ IndexInv)', NEW c \in Called, AppendInvCall(c)
    PROVE  AloneInv'
  <1>. DEFINE item == [kind |-> "invcall", ref |-> NewRef]
              said == [kind |-> "invcall", names |-> {c}]
  <1>1. /\ ticker.at = "append" /\ c \in ticker.todo
        /\ ticker \in Appends /\ ticker.ref = None /\ ticker.todo = ticker.calls
        /\ process.at \in {"idle", "buffer"}
    BY Kinds DEF AppendInvCall, AloneInv, OneItem
  <1>2. ticker.calls = {c}
    BY <1>1 DEF OneByOne, Appends
  <1>3. /\ heap' = Alloc({c})
        /\ ticker' = Writing(Append(history, item), Appending({c}, {}, NewRef))
        /\ UNCHANGED <<history, deps, buffer, process, serving, since, line>>
    BY <1>1, <1>2 DEF AppendInvCall, ghosts
  <1>4. /\ ticker'.at = "write" /\ ticker'.history = Append(history, item)
        /\ ticker'.next.calls = {c} /\ ticker'.next.todo = {}
    BY <1>3 DEF Writing, Appending
  <1>5. Header = history /\ Header' = Append(history, item)
    BY <1>1, <1>3, <1>4 DEF Header
  <1>6. Past' = Append(Past, said) /\ Distinct'
    BY <1>3, <1>5, Kinds, AppendedItem DEF AloneInv, Dep
  <1>7. Past \in Seq(HistoryItem) /\ said \in HistoryItem /\ ~IsCallArgSet(said) /\ said.names = {c}
    BY DEF AloneInv, HistoryItem, Dep, IsCallArgSet
  <1>. HIDE DEF said, item
  <1>8. /\ Past' \in Seq(HistoryItem)
        /\ \A ca : /\ StartsOf(Past', ca) = StartsOf(Past, ca)
                   /\ InvalidatedSince(Past', ca) = InvalidatedSince(Past, ca) \cup {c}
    BY <1>6, <1>7, AppendInvalidation
  <1>9. Received' = Received /\ Unmarked \subseteq Unmarked' \cup {c}
    <2>1. Buffered' = Buffered /\ InProcess' = InProcess
      BY <1>3 DEF Buffered, InProcess
    <2>2. InTicker = {c} /\ InTicker' = {c}
      BY <1>1, <1>2, <1>4 DEF InTicker
    <2>3. Unmarked = Buffered \cup InProcess \cup {c} /\ Unmarked' = Buffered' \cup InProcess'
      BY <1>1, <1>2, <1>4 DEF Unmarked
    <2>. QED
      BY <2>1, <2>2, <2>3 DEF Received
  <1>10. RunsSeen'
    <2>1. \A p, q \in Rid : serving'[p] # None /\ serving'[p] = serving'[q] => p = q
      BY <1>3 DEF AloneInv, RunsSeen
    <2>2. ASSUME NEW q \in Rid, serving'[q] # None
          PROVE  /\ StartsOf(Past', serving'[q]) # {}
                 /\ since'[q] \subseteq InvalidatedSince(Past', serving'[q]) \cup Unmarked'
      <3>1. /\ StartsOf(Past, serving[q]) # {}
            /\ since[q] \subseteq InvalidatedSince(Past, serving[q]) \cup Unmarked
        BY <1>3, <2>2 DEF AloneInv, RunsSeen
      <3>. QED
        BY <1>3, <1>8, <1>9, <3>1
    <2>. QED
      BY <2>1, <2>2 DEF RunsSeen
  <1>11. /\ KeyMarked(process)' /\ SaveGood(process)'
         /\ (process.at = "write" => KeyMarked(process.next) /\ SaveGood(process.next))'
    BY <1>1, <1>3 DEF KeyMarked, SaveGood
  <1>12. LinesGood' /\ TickGood' /\ Turns' /\ OneItem'
    BY <1>1, <1>3, <1>4, <1>9 DEF AloneInv, LinesGood, TickGood, Turns, OneItem
  <1>. QED
    BY <1>6, <1>8, <1>10, <1>11, <1>12 DEF AloneInv

\* The lines that are told are all that are stale in what was popped.
LEMMA SendFollowed ==
    ASSUME AloneInv, (Typed /\ IndexInv)', SendInvs
    PROVE  AloneInv'
  <1>1. /\ ticker.at = "pop" /\ ticker.todo = {} /\ process.at \in {"idle", "buffer"}
        /\ line' = [e \in Entry |-> IF e \in ticker.popped THEN Dropped ELSE line[e]]
        /\ ticker' = [at |-> "remove", calls |-> ticker.calls]
        /\ UNCHANGED <<history, heap, buffer, process, serving, since>>
    BY Kinds DEF SendInvs, shared
  <1>2. Header' = Header /\ Past' = Past /\ Received' = Received /\ Unmarked' = Unmarked
    BY <1>1 DEF Header, Past, Received, Unmarked, Buffered, InProcess, InTicker
  <1>3. ASSUME NEW e \in Entry
        PROVE  /\ ~line'[e].held => line'[e].used = {}
               /\ line'[e].stale \subseteq line'[e].used \cap Received'
               /\ line'[e].stale \cap ticker.calls = {}
    <2>1. /\ ~line[e].held => line[e].used = {}
          /\ line[e].stale \subseteq line[e].used \cap Received
      BY DEF AloneInv, LinesGood
    <2>2. CASE e \in ticker.popped
      BY <1>1, <2>2 DEF Dropped
    <2>3. CASE e \notin ticker.popped
      <3>1. line'[e] = line[e]
        BY <1>1, <2>3
      <3>2. Owed(e) = {} /\ ~Dropping(e)
        BY <1>1, <2>3 DEF Owed, Storing, Dropping
      <3>3. \A d \in line[e].used : e \in deps[d]
        BY <2>1, <3>2 DEF AloneInv, IndexInv, Indexed
      <3>4. \A c \in ticker.calls : deps[c] = {}
        BY <1>1 DEF AloneInv, TickGood
      <3>5. line[e].used \cap ticker.calls = {}
        BY <3>3, <3>4
      <3>. QED
        BY <1>2, <2>1, <3>1, <3>5
    <2>. QED
      BY <2>2, <2>3
  <1>4. LinesGood' /\ TickGood'
    BY <1>1, <1>3 DEF LinesGood, TickGood
  <1>5. RunsSeen'
    BY <1>1, <1>2 DEF AloneInv, RunsSeen
  <1>6. /\ KeyMarked(process)' /\ SaveGood(process)'
        /\ (process.at = "write" => KeyMarked(process.next) /\ SaveGood(process.next))'
    BY <1>1 DEF KeyMarked, SaveGood
  <1>7. Turns' /\ OneItem' /\ Distinct' /\ Past' \in Seq(HistoryItem)
    BY <1>1, <1>2 DEF AloneInv, Turns, OneItem, Distinct
  <1>. QED
    BY <1>4, <1>5, <1>6, <1>7 DEF AloneInv

\* After which the calls are forgotten.
LEMMA RemoveFollowed ==
    ASSUME AloneInv, (Typed /\ IndexInv)', CacheRemoveCalls
    PROVE  AloneInv'
  <1>1. /\ ticker.at = "remove" /\ process.at \in {"idle", "buffer"}
        /\ ticker' = Waiting /\ ticker'.at = "wait"
        /\ UNCHANGED <<history, heap, deps, buffer, process, serving, since, line>>
    BY Kinds DEF CacheRemoveCalls, ghosts, Waiting
  <1>2. Header' = Header /\ Past' = Past /\ Unmarked' = Unmarked
    BY <1>1 DEF Header, Past, Unmarked, Buffered, InProcess
  <1>3. Received \subseteq Received' \cup ticker.calls
    BY <1>1 DEF Received, Buffered, InProcess, InTicker
  <1>4. LinesGood'
    BY <1>1, <1>3 DEF AloneInv, LinesGood, TickGood
  <1>5. RunsSeen'
    BY <1>1, <1>2 DEF AloneInv, RunsSeen
  <1>6. /\ KeyMarked(process)' /\ SaveGood(process)'
        /\ (process.at = "write" => KeyMarked(process.next) /\ SaveGood(process.next))'
    BY <1>1 DEF KeyMarked, SaveGood
  <1>7. TickGood' /\ Turns' /\ OneItem' /\ Distinct' /\ Past' \in Seq(HistoryItem)
    BY <1>1, <1>2 DEF AloneInv, TickGood, Turns, OneItem, Distinct
  <1>. QED
    BY <1>4, <1>5, <1>6, <1>7 DEF AloneInv

LEMMA TickerFollowed ==
    ASSUME AloneInv, OneByOne, Free, (Typed /\ IndexInv)', Ticker
    PROVE  AloneInv'
  <1>1. CASE Tick
    <2>1. /\ ticker.at = "wait" /\ ticker = Waiting /\ process.at \in {"idle", "buffer"}
          /\ ticker' = [at |-> "drain", calls |-> {}]
          /\ UNCHANGED <<history, heap, deps, buffer, process, serving, since, line>>
      BY <1>1 DEF Tick, OneByOne, shared, ghosts, Waiting
    <2>2. Header' = Header /\ Past' = Past /\ Received' = Received /\ Unmarked' = Unmarked
      BY <2>1 DEF Header, Past, Received, Unmarked, Buffered, InProcess, InTicker
    <2>3. Turns' /\ OneItem' /\ TickGood'
      BY <2>1 DEF Turns, OneItem, TickGood
    <2>. QED
      BY <2>1, <2>2, <2>3, QuietStep
  <1>2. CASE Drain
    <2>1. /\ ticker.at = "drain" /\ buffer # <<>> /\ buffer' = Tail(buffer)
          /\ ticker' = [ticker EXCEPT !.calls = @ \cup Head(buffer)]
          /\ UNCHANGED <<history, heap, deps, process, serving, since, line>>
      BY <1>2 DEF Drain, ghosts
    <2>2. ticker \in [at : {"drain"}, calls : SUBSET Called] /\ process.at \in {"idle", "buffer"}
      BY <2>1, Kinds DEF AloneInv, Typed, Places, TickerTypes, Waiting, Appends, Pops, Writing
    <2>3. ticker'.at = "drain" /\ ticker'.calls = ticker.calls \cup Head(buffer)
      BY <2>1, <2>2
    <2>4. Buffered = Head(buffer) \cup Buffered'
      <3>1. PICK q : q = buffer
        OBVIOUS
      <3>2. UNION {q[i] : i \in 1..Len(q)}
               = Head(q) \cup (UNION {Tail(q)[i] : i \in 1..Len(Tail(q))})
        <4>1. q \in Seq(SUBSET Called) /\ q # <<>>
          BY <2>1, <3>1, Kinds
        <4>. QED
          BY <4>1, BufferTaken
      <3>. QED
        BY <2>1, <3>1, <3>2 DEF Buffered
    <2>5. Header' = Header /\ Past' = Past
      BY <2>1, <2>3 DEF Header, Past
    <2>6. InProcess' = InProcess
      BY <2>1 DEF InProcess
    <2>7. Received' = Received /\ Unmarked' = Unmarked
      BY <2>1, <2>3, <2>4, <2>6 DEF Received, Unmarked, InTicker
    <2>8. Turns' /\ OneItem' /\ TickGood'
      BY <2>1, <2>2, <2>3 DEF Turns, OneItem, TickGood
    <2>. QED
      BY <2>1, <2>5, <2>7, <2>8, QuietStep
  <1>3. CASE Drained
    <2>1. /\ ticker.at = "drain" /\ process.at \in {"idle", "buffer"}
          /\ ticker' = IF ticker.calls = {} THEN Waiting
                       ELSE Appending(ticker.calls, ticker.calls, None)
          /\ UNCHANGED <<history, heap, deps, buffer, process, serving, since, line>>
      BY <1>3, Kinds DEF Drained, shared, ghosts
    <2>2. \/ ticker.calls = {} /\ ticker'.at = "wait"
          \/ /\ ticker'.at = "append" /\ ticker'.calls = ticker.calls
             /\ ticker'.todo = ticker.calls /\ ticker'.ref = None
      BY <2>1 DEF Appending, Waiting
    <2>3. Header' = Header /\ Past' = Past
      BY <2>1, <2>2 DEF Header, Past
    <2>4. Buffered' = Buffered /\ InProcess' = InProcess /\ InTicker' = InTicker
      <3>1. Buffered' = Buffered /\ InProcess' = InProcess
        BY <2>1 DEF Buffered, InProcess
      <3>2. InTicker = ticker.calls /\ InTicker' = ticker.calls
        BY <2>1, <2>2 DEF InTicker
      <3>. QED
        BY <3>1, <3>2
    <2>5. Received' = Received /\ Unmarked' = Unmarked
      BY <2>1, <2>2, <2>4 DEF Received, Unmarked
    <2>6. Turns' /\ OneItem' /\ TickGood'
      BY <2>1, <2>2 DEF Turns, OneItem, TickGood
    <2>. QED
      BY <2>1, <2>3, <2>5, <2>6, QuietStep
  <1>4. CASE WriteInvCall
    <2>1. /\ ticker.at = "write" /\ process.at \in {"idle", "buffer"} /\ ticker.next.todo = {}
          /\ history' = ticker.history
          /\ ticker' = Popping(ticker.next.calls, ticker.next.calls, {})
          /\ UNCHANGED <<heap, deps, buffer, process, serving, since, line>>
      BY <1>4, Kinds DEF WriteInvCall, ghosts, AloneInv, OneItem
    <2>2. ticker'.at = "pop" /\ ticker'.calls = ticker.next.calls /\ ticker'.todo = ticker'.calls
      BY <2>1 DEF Popping
    <2>3. Header' = Header /\ Past' = Past
      BY <2>1, <2>2 DEF Header, Past
    <2>4. Received' = Received /\ Unmarked' = Unmarked
      BY <2>1, <2>2 DEF Received, Unmarked, Buffered, InProcess, InTicker
    <2>5. Turns' /\ OneItem' /\ TickGood'
      BY <2>1, <2>2 DEF Turns, OneItem, TickGood
    <2>. QED
      BY <2>1, <2>3, <2>4, <2>5, QuietStep
  <1>5. ASSUME NEW c \in Called, PopCallDep(c) PROVE AloneInv'
    <2>1. /\ ticker.at = "pop" /\ process.at \in {"idle", "buffer"} /\ c \in ticker.todo
          /\ deps' = PopDeps(deps, {c})
          /\ ticker' = Popping(ticker.calls, ticker.todo \ {c}, ticker.popped \cup deps[c])
          /\ UNCHANGED <<history, heap, buffer, process, serving, since, line>>
      BY <1>5, Kinds DEF PopCallDep, ghosts
    <2>2. /\ ticker'.at = "pop" /\ ticker'.calls = ticker.calls
          /\ ticker'.todo = ticker.todo \ {c}
      BY <2>1 DEF Popping
    <2>3. Header' = Header /\ Past' = Past
      BY <2>1, <2>2 DEF Header, Past
    <2>4. Buffered' = Buffered /\ InProcess' = InProcess
      BY <2>1 DEF Buffered, InProcess
    <2>5. InTicker' = InTicker
      BY <2>1, <2>2 DEF InTicker
    <2>6. Received' = Received /\ Unmarked' = Unmarked
      BY <2>1, <2>2, <2>4, <2>5 DEF Received, Unmarked
    <2>7. TickGood'
      <3>1. ticker.calls \subseteq Dep
        BY <2>1, Kinds DEF Pops, Dep
      <3>2. \A d \in ticker.calls \ ticker.todo : deps[d] = {}
        BY <2>1 DEF AloneInv, TickGood
      <3>3. \A d \in Dep : deps'[d] = IF d = c THEN {} ELSE deps[d]
        BY <2>1 DEF PopDeps
      <3>. QED
        BY <2>2, <3>1, <3>2, <3>3 DEF TickGood
    <2>8. Turns' /\ OneItem'
      BY <2>1, <2>2 DEF Turns, OneItem
    <2>. QED
      BY <2>1, <2>3, <2>6, <2>7, <2>8, QuietStep
  <1>. QED
    BY <1>1, <1>2, <1>3, <1>4, <1>5, AppendFollowed, SendFollowed, RemoveFollowed DEF Ticker

LEMMA AloneNext ==
    ASSUME OneByOne
    PROVE  AloneInv /\ Free /\ [Next]_vars => AloneInv'
  <1>. SUFFICES ASSUME AloneInv, Free, [Next]_vars PROVE AloneInv'
    OBVIOUS
  <1>1. (Typed /\ IndexInv)'
    BY TypedNext, IndexNext DEF AloneInv
  <1>2. CASE UNCHANGED vars
    <2>1. UNCHANGED <<history, heap, deps, cached, buffer, process, ticker, serving, since, line>>
      BY <1>2 DEF vars, shared, ghosts
    <2>2. Header' = Header /\ Past' = Past /\ Received' = Received /\ Unmarked' = Unmarked
      BY <2>1 DEF Header, Past, Received, Unmarked, Buffered, InProcess, InTicker
    <2>3. Turns' /\ OneItem' /\ TickGood'
      BY <2>1 DEF AloneInv, Turns, OneItem, TickGood
    <2>. QED
      BY <1>1, <2>1, <2>2, <2>3, QuietStep
  <1>. QED
    BY <1>1, <1>2, RequestFollowed, ProcessFollowed, TickerFollowed DEF Next

\* What the ticker goroutine writes is the history and an item: Process is at
\* rest meanwhile, or waits for the channel.
TickWrites ==
    ticker.at = "write" =>
        \E ref \in Ref : ticker.history = Append(history, [kind |-> "invcall", ref |-> ref])

LEMMA TickWritesNext == AloneInv /\ TickWrites /\ Free /\ [Next]_vars => TickWrites'
  <1>. SUFFICES ASSUME AloneInv, TickWrites, Free, [Next]_vars PROVE TickWrites'
    OBVIOUS
  <1>1. ASSUME UNCHANGED <<history, ticker>> PROVE TickWrites'
    BY <1>1 DEF TickWrites
  <1>2. ASSUME ticker'.at # "write" PROVE TickWrites'
    BY <1>2 DEF TickWrites
  <1>3. CASE NewRequest
    BY <1>1, <1>3 DEF NewRequest, StartRequest, Abandon, EndRequest, InvalidateKeyRequest,
                      InvalidateCallsRequest, SaveCallsRequest, shared
  <1>4. CASE Process
    <2>1. CASE WriteHistory
      <3>1. ticker.at = "wait" /\ ticker' = ticker
        BY <2>1, Kinds DEF WriteHistory, AloneInv, Turns
      <3>. QED
        BY <1>2, <3>1
    <2>2. UNCHANGED <<history, ticker>> \/ WriteHistory
      BY <1>4 DEF Process, PopKeyDeps, SendSave, GetCallDep, MarkCallDep, AddCallDep, BufferCalls,
                  shared
    <2>. QED
      BY <1>1, <2>1, <2>2
  <1>5. CASE Ticker
    <2>1. ASSUME NEW c \in Called, AppendInvCall(c) PROVE TickWrites'
      <3>. DEFINE ref == IF ticker.ref = None THEN NewRef ELSE ticker.ref
      <3>1. ref \in Ref
        BY <2>1, Kinds, NewRefFacts DEF AppendInvCall, Appends
      <3>2. /\ ticker'.history = Append(history, [kind |-> "invcall", ref |-> ref])
            /\ history' = history
        BY <2>1 DEF AppendInvCall, Writing
      <3>. QED
        BY <3>1, <3>2 DEF TickWrites
    <2>2. CASE Drain
      BY <1>2, <2>2, Kinds DEF Drain, AloneInv, Typed, Places, TickerTypes, Waiting, Appends, Pops,
                               Writing
    <2>3. CASE WriteInvCall
      <3>1. ticker'.at \in {"append", "pop"}
        BY <2>3, Kinds DEF WriteInvCall, Popping, Appends
      <3>. QED
        BY <1>2, <3>1
    <2>4. ASSUME NEW c \in Called, PopCallDep(c) PROVE TickWrites'
      BY <1>2, <2>4 DEF PopCallDep, Popping
    <2>5. CASE Tick \/ Drained \/ SendInvs \/ CacheRemoveCalls
      BY <1>2, <2>5 DEF Tick, Drained, SendInvs, CacheRemoveCalls, Waiting, Appending
    <2>. QED
      BY <1>5, <2>1, <2>2, <2>3, <2>4, <2>5 DEF Ticker
  <1>6. CASE UNCHANGED vars
    BY <1>1, <1>6 DEF vars, shared
  <1>. QED
    BY <1>3, <1>4, <1>5, <1>6 DEF Next

LEMMA AloneStarts == AloneInv /\ TickWrites => StartFound
  <1>. SUFFICES ASSUME AloneInv, TickWrites, process = Idle,
                       NEW r \in Rid, serving[r] # None
                PROVE  StartsOf(Deref(history), serving[r]) # {}
    BY DEF StartFound
  <1>1. process.at = "idle" /\ StartsOf(Past, serving[r]) # {}
    BY DEF AloneInv, RunsSeen, Idle
  <1>2. Deref(history) = Said(history, heap)
    BY DEF Deref, Said
  <1>3. CASE ticker.at # "write"
    BY <1>1, <1>2, <1>3 DEF Header, Past
  <1>4. CASE ticker.at = "write"
    <2>1. PICK ref \in Ref : ticker.history = Append(history, [kind |-> "invcall", ref |-> ref])
      BY <1>4 DEF TickWrites
    <2>2. PICK h, item : h = heap /\ item = [kind |-> "invcall", ref |-> ref]
      OBVIOUS
    <2>3. item \in Item /\ history \in Seq(Item)
      BY <2>2, Kinds DEF Item
    <2>4. Said(Append(history, item), h)
             = Append(Said(history, h), [kind |-> item.kind, names |-> h[item.ref]])
      BY <2>3, SaidAppend
    <2>5. PICK past, said : past = Said(history, h) /\ said = [kind |-> "invcall", names |-> h[ref]]
      OBVIOUS
    <2>6. Past = Append(past, said) /\ Deref(history) = past
      BY <1>1, <1>2, <1>4, <2>1, <2>2, <2>4, <2>5 DEF Past, Header
    <2>7. past = [i \in 1..Len(past) |-> past[i]] /\ Len(past) \in Nat
      BY <2>3, <2>5, SaidFacts DEF Said
    <2>8. /\ Len(Append(past, said)) = Len(past) + 1
          /\ Append(past, said)[Len(past) + 1] = said
          /\ \A i \in 1..Len(past) : Append(past, said)[i] = past[i]
      BY <2>7
    <2>9. ~IsCallArgSet(said)
      BY <2>5 DEF IsCallArgSet
    <2>10. StartsOf(Append(past, said), serving[r]) \subseteq StartsOf(past, serving[r])
      <3>. DEFINE all == Append(past, said)
      <3>. HIDE DEF all
      <3>1. ASSUME NEW i \in 1..Len(all), IsCallArgSet(all[i])
            PROVE  i \in 1..Len(past) /\ all[i] = past[i]
        BY <2>7, <2>8, <2>9, <3>1 DEF all
      <3>2. StartsOf(all, serving[r]) \subseteq StartsOf(past, serving[r])
        BY <3>1 DEF StartsOf
      <3>. QED
        BY <3>2 DEF all
    <2>. QED
      BY <1>1, <2>6, <2>10
  <1>. QED
    BY <1>3, <1>4

(***************************************************************************)
(* Delayed invalidations do no harm while a tick is not mixed with a       *)
(* request and there is one call to invalidate, so that the loop variable  *)
(* of server.go:142 names it: with any number of runs, of calls served, of *)
(* keys and of requests waiting in the channel, a line held upstream that  *)
(* may be out of date waits for a call some tick will invalidate, and the  *)
(* walk of validCall finds the start it looks for.                         *)
(***************************************************************************)
THEOREM Delaying ==
    ASSUME OneByOne
    PROVE  Spec /\ []Free => [](StaleIsReceived /\ StartFound)
  <1>1. Init => AloneInv /\ TickWrites
    BY AloneInit DEF Init, TickWrites, Waiting
  <1>2. AloneInv /\ TickWrites /\ Free /\ [Next]_vars => AloneInv' /\ TickWrites'
    BY AloneNext, TickWritesNext
  <1>3. AloneInv /\ TickWrites => StaleIsReceived /\ StartFound
    <2>1. AloneInv => StaleIsReceived
      BY DEF AloneInv, LinesGood, StaleIsReceived
    <2>. QED
      BY <2>1, AloneStarts
  <1>. QED
    BY <1>1, <1>2, <1>3, PTL DEF Spec

-----------------------------------------------------------------------------
\* A history of any length leaves addresses when there is no bound on them.
LEMMA RefsFinite ==
    ASSUME NEW items \in Seq(Item)
    PROVE  IsFiniteSet(RefsOf(items))
  <1>. DEFINE f == [i \in 1..Len(items) |-> items[i].ref]
  <1>1. f \in Surjection(1..Len(items), RefsOf(items))
    BY DEF Surjection, RefsOf
  <1>2. IsFiniteSet(1..Len(items))
    BY FS_Interval
  <1>. QED
    BY <1>1, <1>2, FS_Surjection

LEMMA NatInfinite == ~IsFiniteSet(Nat)
  <1>. SUFFICES ASSUME IsFiniteSet(Nat) PROVE FALSE
    OBVIOUS
  <1>1. PICK n \in Nat : n = Cardinality(Nat)
    BY FS_CardinalityType
  <1>2. Cardinality(0..n) = n + 1
    BY FS_Interval
  <1>3. 0..n \in SUBSET Nat
    OBVIOUS
  <1>4. Cardinality(0..n) <= n
    BY <1>1, <1>3, FS_Subset
  <1>. QED
    BY <1>2, <1>4

LEMMA AddressLeft ==
    ASSUME Ref = Nat, Typed
    PROVE  Free
  <1>. DEFINE P == IF process.at = "write" THEN RefsOf(process.history) ELSE {}
              T == IF ticker.at = "write" THEN RefsOf(ticker.history) ELSE {}
              A == IF ticker.at = "append" THEN {ticker.ref} ELSE {}
  <1>1. Live = RefsOf(history) \cup P \cup T \cup A
    <2>1. UNION {RefsOf(copy) : copy \in Copies} = P \cup T
      BY DEF Copies
    <2>. QED
      BY <2>1 DEF Live
  <1>2. ticker.at = "write" => ticker.history \in Seq(Item)
    BY DEF Typed, Places, TickerTypes, Waiting, Appends, Pops
  <1>3. IsFiniteSet(RefsOf(history)) /\ IsFiniteSet(P) /\ IsFiniteSet(T) /\ IsFiniteSet(A)
    BY <1>2, RefsFinite, FS_EmptySet, FS_Singleton DEF Typed, Places
  <1>. HIDE DEF P, T, A
  <1>4. IsFiniteSet(Live)
    BY <1>1, <1>3, FS_Union
  <1>5. ~(Nat \subseteq Live)
    BY <1>4, NatInfinite, FS_Subset
  <1>. QED
    BY <1>5 DEF Free

(***************************************************************************)
(* With addresses without end, as a garbage-collected heap has for this    *)
(* purpose, one is always left, and the two theorems hold of Spec alone.   *)
(***************************************************************************)
THEOREM Unbounded ==
    ASSUME Ref = Nat
    PROVE  /\ Spec => [](Free /\ TypeOK)
           /\ OneByOne => (Spec => [](StaleIsReceived /\ StartFound))
  <1>1. Typed /\ IndexInv /\ [Next]_vars => Typed'
    BY AddressLeft, TypedNext
  <1>2. Typed => Free
    BY AddressLeft
  <1>3. Spec => []Free
    BY IndexInit, IndexNext, TypedInit, <1>1, <1>2, PTL DEF Spec
  <1>4. Spec /\ []Free => []TypeOK
    BY Typing
  <1>5. OneByOne => (Spec /\ []Free => [](StaleIsReceived /\ StartFound))
    BY Delaying
  <1>. QED
    BY <1>3, <1>4, <1>5, PTL
=============================================================================
