----------------------------- MODULE SendBuffer -----------------------------
(***************************************************************************)
(* HttpSendBuffer of internal/cm/httpsender.go: what a cache manager has   *)
(* to tell the managers of its callers, merged until the next flush.  The  *)
(* Go map from caller to (InvSet, SaveMap) is flattened: inv is the union  *)
(* of the InvSets and save of the SaveMaps, over (caller, call) entries.   *)
(***************************************************************************)
CONSTANTS Entry, Val, NoVal

Buffer == [inv : SUBSET Entry, save : [Entry -> Val \cup {NoVal}]]

Empty == [inv |-> {}, save |-> [e \in Entry |-> NoVal]]

Saved(buffer) == {e \in Entry : buffer.save[e] # NoVal}
Buffered(buffer) == buffer.inv \cup Saved(buffer)
Callers(buffer) == {e[1] : e \in Buffered(buffer)}

\* The entries of one caller's InvSet and SaveMap.
InvOf(buffer, caller) == {e \in buffer.inv : e[1] = caller}
SaveOf(buffer, caller) == {e \in Saved(buffer) : e[1] = caller}

\* Faulty: an invalidation already buffered stays.
AddSaveKeepInv(buffer, e, v) ==
    [inv |-> buffer.inv, save |-> [buffer.save EXCEPT ![e] = v]]

\* Faulty: a value already buffered stays.
AddSaveKeepOld(buffer, e, v) ==
    [inv  |-> buffer.inv \ {e},
     save |-> [buffer.save EXCEPT ![e] = IF @ = NoVal THEN v ELSE @]]

AddSave(buffer, e, v) ==
    [inv |-> buffer.inv \ {e}, save |-> [buffer.save EXCEPT ![e] = v]]

AddInvalidate(buffer, entries) ==
    [inv  |-> buffer.inv \cup entries,
     save |-> [e \in Entry |-> IF e \in entries THEN NoVal ELSE buffer.save[e]]]

\* A request saves one line or invalidates a set of them.
AddRequest(buffer, request) ==
    IF request.save
    THEN AddSave(buffer, CHOOSE e \in request.entries : TRUE, request.val)
    ELSE AddInvalidate(buffer, request.entries)

Without(buffer, caller) ==
    [inv  |-> buffer.inv \ InvOf(buffer, caller),
     save |-> [e \in Entry |-> IF e[1] = caller THEN NoVal ELSE buffer.save[e]]]

\* The comment of flushBuffer: what it saves and what it invalidates are
\* disjoint, so the order of the two requests does not matter.
DisjointBuffer(buffer) == buffer.inv \cap Saved(buffer) = {}
=============================================================================
