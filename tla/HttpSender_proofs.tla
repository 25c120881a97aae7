------------------------- MODULE HttpSender_proofs -------------------------
(***************************************************************************)
(* Theorems about HttpSender for every value of its constants.             *)
(***************************************************************************)
EXTENDS HttpSender, SequenceTheorems, TLAPS

\* What each operation on the buffer gives, as a buffer.
LEMMA BufferTypes ==
    ASSUME NEW b \in Buffer
    PROVE  /\ \A e \in Entry, v \in Val : AddSave(b, e, v) \in Buffer
           /\ \A entries \in SUBSET Entry : AddInvalidate(b, entries) \in Buffer
           /\ \A caller : Without(b, caller) \in Buffer
           /\ Saved(b) \subseteq Entry
  <1>1. ASSUME NEW e \in Entry, NEW v \in Val PROVE AddSave(b, e, v) \in Buffer
    BY DEF Buffer, AddSave
  <1>2. ASSUME NEW entries \in SUBSET Entry PROVE AddInvalidate(b, entries) \in Buffer
    BY DEF Buffer, AddInvalidate
  <1>3. ASSUME NEW caller PROVE Without(b, caller) \in Buffer
    BY DEF Buffer, Without
  <1>. QED
    BY <1>1, <1>2, <1>3 DEF Saved

\* A save takes the entry out of the invalidations, an invalidation takes its
\* entries out of the saves.
LEMMA BufferDisjoint ==
    ASSUME NEW b \in Buffer, DisjointBuffer(b)
    PROVE  /\ \A e \in Entry, v \in Val : DisjointBuffer(AddSave(b, e, v))
           /\ \A entries \in SUBSET Entry : DisjointBuffer(AddInvalidate(b, entries))
           /\ \A caller : DisjointBuffer(Without(b, caller))
  <1>. USE DEF DisjointBuffer, Saved, Buffer
  <1>1. ASSUME NEW e \in Entry, NEW v \in Val PROVE DisjointBuffer(AddSave(b, e, v))
    BY DEF AddSave
  <1>2. ASSUME NEW entries \in SUBSET Entry PROVE DisjointBuffer(AddInvalidate(b, entries))
    BY DEF AddInvalidate
  <1>3. ASSUME NEW caller PROVE DisjointBuffer(Without(b, caller))
    BY DEF Without, InvOf
  <1>. QED
    BY <1>1, <1>2, <1>3

\* A request that saves names one entry.
LEMMA RequestFacts ==
    ASSUME NEW request \in Request
    PROVE  /\ request.entries \in SUBSET Entry
           /\ request.save =>
                 \E e \in Entry :
                    /\ request.entries = {e}
                    /\ request.val \in Val
                    /\ (CHOOSE x \in request.entries : TRUE) = e
  BY ZenonT(40) DEF Request

\* addRequest keeps the buffer a buffer, and disjoint.
LEMMA AddRequestFacts ==
    ASSUME NEW b \in Buffer, NEW request \in Request
    PROVE  /\ AddRequest(b, request) \in Buffer
           /\ DisjointBuffer(b) => DisjointBuffer(AddRequest(b, request))
  <1>1. CASE request.save
    <2>1. PICK e \in Entry : /\ request.val \in Val
                            /\ (CHOOSE x \in request.entries : TRUE) = e
      BY <1>1, RequestFacts
    <2>2. AddRequest(b, request) = AddSave(b, e, request.val)
      BY <1>1, <2>1 DEF AddRequest
    <2>. QED
      BY <2>1, <2>2, BufferTypes, BufferDisjoint
  <1>2. CASE ~request.save
    <2>1. AddRequest(b, request) = AddInvalidate(b, request.entries)
      BY <1>2 DEF AddRequest
    <2>. QED
      BY <2>1, RequestFacts, BufferTypes, BufferDisjoint
  <1>. QED
    BY <1>1, <1>2

\* The post holds nothing the buffer does not.
Part(post, b) ==
    /\ post \in Post
    /\ post.inv \subseteq b.inv
    /\ \A e \in Entry : post.save[e] # NoVal => post.save[e] = b.save[e]

\* Two lists of parts of a buffer make one.
LEMMA ConcatParts ==
    ASSUME NEW r \in Seq(Post), NEW s \in Seq(Post), NEW b,
           \A i \in 1..Len(r) : Part(r[i], b),
           \A i \in 1..Len(s) : Part(s[i], b)
    PROVE  /\ r \o s \in Seq(Post)
           /\ \A i \in 1..Len(r \o s) : Part((r \o s)[i], b)
  <1>1. /\ r \o s \in Seq(Post)
        /\ Len(r \o s) = Len(r) + Len(s)
        /\ \A i \in 1..Len(r \o s) : (r \o s)[i] = IF i <= Len(r) THEN r[i] ELSE s[i - Len(r)]
    BY ConcatProperties
  <1>2. ASSUME NEW i \in 1..Len(r \o s) PROVE Part((r \o s)[i], b)
    <2>1. CASE i <= Len(r)
      BY <1>1, <2>1
    <2>2. CASE i > Len(r)
      <3>1. i - Len(r) \in 1..Len(s)
        BY <1>1, <2>2
      <3>. QED
        BY <1>1, <2>2, <3>1
    <2>. QED
      BY <2>1, <2>2
  <1>. QED
    BY <1>1, <1>2

\* A list of at most one post.
LEMMA AtMostOnePart ==
    ASSUME NEW x \in Post, NEW b, Part(x, b), NEW s, s = <<>> \/ s = <<x>>
    PROVE  s \in Seq(Post) /\ \A i \in 1..Len(s) : Part(s[i], b)
  <1>1. CASE s = <<>>
    BY <1>1
  <1>2. CASE s = <<x>>
    <2>1. s \in Seq(Post) /\ Len(s) = 1 /\ s[1] = x
      BY <1>2
    <2>. QED
      BY <2>1
  <1>. QED
    BY <1>1, <1>2

\* What FlushCaller posts is part of the buffer.
LEMMA PostsFacts ==
    ASSUME buffer \in Buffer, NEW caller
    PROVE  LET posts == InvPost(caller) \o SavePost(caller)
           IN  /\ posts \in Seq(Post)
               /\ \A i \in 1..Len(posts) : Part(posts[i], buffer)
  <1>. DEFINE inv == InvOf(buffer, caller)
              save == SaveOf(buffer, caller)
              p == [Empty EXCEPT !.inv = inv]
              q == [Empty EXCEPT !.save =
                       [e \in Entry |-> IF e \in save THEN buffer.save[e] ELSE NoVal]]
  <1>1. p = [inv |-> inv, save |-> [e \in Entry |-> NoVal]]
    BY DEF Empty
  <1>2. q = [inv |-> {},
             save |-> [e \in Entry |-> IF e \in save THEN buffer.save[e] ELSE NoVal]]
    BY DEF Empty
  <1>3. Part(p, buffer)
    BY <1>1 DEF Part, Post, Buffer, InvOf
  <1>4. Part(q, buffer)
    BY <1>2 DEF Part, Post, Buffer
  <1>5. InvPost(caller) = <<>> \/ InvPost(caller) = <<p>>
    BY DEF InvPost
  <1>6. SavePost(caller) = <<>> \/ SavePost(caller) = <<q>>
    BY DEF SavePost
  <1>7. p \in Post /\ q \in Post
    BY <1>3, <1>4 DEF Part
  <1>. HIDE DEF p, q
  <1>8. /\ InvPost(caller) \in Seq(Post)
        /\ \A i \in 1..Len(InvPost(caller)) : Part(InvPost(caller)[i], buffer)
    BY <1>3, <1>5, <1>7, AtMostOnePart
  <1>9. /\ SavePost(caller) \in Seq(Post)
        /\ \A i \in 1..Len(SavePost(caller)) : Part(SavePost(caller)[i], buffer)
    BY <1>4, <1>6, <1>7, AtMostOnePart
  <1>. QED
    BY <1>8, <1>9, ConcatParts

\* Outside a flush the batch is not full.
Counted == ~flushing => sinceLastFlush <= HttpBatchLimit

TypeInv == TypeOK /\ Counted

LEMMA TypingInit == Init => TypeInv
  <1>. SUFFICES ASSUME Init PROVE TypeInv
    OBVIOUS
  <1>1. Empty \in Buffer
    BY DEF Empty, Buffer
  <1>. QED
    <2>1. sinceLastFlush \in 0..(HttpBatchLimit + 1) /\ sinceLastFlush <= HttpBatchLimit
      BY BatchLimitAssumption DEF Init
    <2>2. buffer \in Buffer /\ flushing \in BOOLEAN
      BY <1>1 DEF Init
    <2>3. HttpQueue \in Seq(Request) /\ posting \in Seq(Post)
      BY DEF Init
    <2>4. told \in [Entry -> Val \cup {NoVal}] /\ last \in [Entry -> Val \cup {NoVal}]
      BY DEF Init
    <2>. QED
      BY <2>1, <2>2, <2>3, <2>4 DEF TypeInv, TypeOK, Counted

LEMMA TypingNext == TypeInv /\ [Next]_vars => TypeInv'
  <1>. SUFFICES ASSUME TypeInv, [Next]_vars PROVE TypeInv'
    OBVIOUS
  <1>. USE DEF TypeInv, TypeOK, Counted
  <1>1. ASSUME NEW request \in Request, Enqueue(request)
        PROVE  TypeInv'
    <2>1. HttpQueue' \in Seq(Request)
      BY <1>1 DEF Enqueue
    <2>2. last' \in [Entry -> Val \cup {NoVal}]
      BY <1>1 DEF Enqueue, Request
    <2>. QED
      BY <1>1, <2>1, <2>2 DEF Enqueue
  <1>2. ASSUME NEW e \in Entry, NEW v \in Val, SendSaveToCaller(e, v)
        PROVE  TypeInv'
    BY <1>1, <1>2 DEF SendSaveToCaller, Request
  <1>3. ASSUME NEW entries \in SUBSET Entry, SendInvsToCallers(entries)
        PROVE  TypeInv'
    BY <1>1, <1>3 DEF SendInvsToCallers, Request
  <1>4. CASE Receive
    <2>1. Head(HttpQueue) \in Request /\ HttpQueue' \in Seq(Request)
      BY <1>4 DEF Receive
    <2>2. buffer' \in Buffer
      BY <1>4, <2>1, AddRequestFacts DEF Receive
    <2>3. sinceLastFlush' \in 0..(HttpBatchLimit + 1)
      BY <1>4, BatchLimitAssumption DEF Receive
    <2>4. flushing' \in BOOLEAN /\ Counted'
      <3>1. CASE sinceLastFlush' > HttpBatchLimit
        <4>1. flushing' = TRUE
          BY <1>4, <3>1 DEF Receive
        <4>. QED
          BY <4>1
      <3>2. CASE ~(sinceLastFlush' > HttpBatchLimit)
        <4>1. flushing' = FALSE
          BY <1>4, <3>2 DEF Receive
        <4>2. sinceLastFlush' <= HttpBatchLimit
          BY <2>3, <3>2, BatchLimitAssumption
        <4>. QED
          BY <4>1, <4>2
      <3>. QED
        BY <3>1, <3>2
    <2>. QED
      BY <1>4, <2>1, <2>2, <2>3, <2>4 DEF Receive
  <1>5. CASE Timeout
    BY <1>5 DEF Timeout
  <1>6. ASSUME NEW caller \in Caller, FlushCaller(caller)
        PROVE  TypeInv'
    <2>1. buffer' \in Buffer /\ posting' \in Seq(Post)
      BY <1>6, BufferTypes, PostsFacts DEF FlushCaller
    <2>. QED
      BY <1>6, <2>1 DEF FlushCaller
  <1>7. CASE Deliver
    <2>1. Head(posting) \in Post /\ posting' \in Seq(Post)
      BY <1>7 DEF Deliver
    <2>2. told' \in [Entry -> Val \cup {NoVal}]
      BY <1>7, <2>1 DEF Deliver, Post
    <2>. QED
      BY <1>7, <2>1, <2>2 DEF Deliver
  <1>8. CASE FlushDone
    <2>1. sinceLastFlush' \in 0..(HttpBatchLimit + 1) /\ sinceLastFlush' <= HttpBatchLimit
      BY <1>8, BatchLimitAssumption DEF FlushDone
    <2>. QED
      BY <1>8, <2>1 DEF FlushDone
  <1>9. CASE UNCHANGED vars
    BY <1>9 DEF vars
  <1>. QED
    BY <1>2, <1>3, <1>4, <1>5, <1>6, <1>7, <1>8, <1>9 DEF Next, Process, Sender

\* Every variable keeps its type, whatever Process sends and however the
\* flushes fall.
THEOREM Typing == Spec => []TypeOK
  <1>1. TypeInv => TypeOK
    BY DEF TypeInv
  <1>. QED
    BY TypingInit, TypingNext, <1>1, PTL DEF Spec

-----------------------------------------------------------------------------
DisjointInv == TypeInv /\ Disjoint

LEMMA DisjointInit == Init => DisjointInv
  <1>1. Init => Disjoint
    BY DEF Init, Disjoint, DisjointBuffer, Empty
  <1>. QED
    BY <1>1, TypingInit DEF DisjointInv

LEMMA DisjointNext == DisjointInv /\ [Next]_vars => DisjointInv'
  <1>. SUFFICES ASSUME DisjointInv, [Next]_vars PROVE Disjoint'
    BY TypingNext DEF DisjointInv
  <1>. USE DEF DisjointInv, TypeInv, TypeOK
  <1>1. CASE UNCHANGED <<buffer, posting>>
    BY <1>1 DEF Disjoint, DisjointBuffer, Saved
  <1>2. CASE Receive
    <2>1. Head(HttpQueue) \in Request
      BY <1>2 DEF Receive
    <2>2. DisjointBuffer(buffer')
      BY <1>2, <2>1, AddRequestFacts DEF Receive, Disjoint
    <2>. QED
      BY <1>2, <2>2 DEF Receive, Disjoint
  <1>3. ASSUME NEW caller \in Caller, FlushCaller(caller)
        PROVE  Disjoint'
    <2>1. DisjointBuffer(buffer')
      BY <1>3, BufferDisjoint DEF FlushCaller, Disjoint
    <2>2. \A i \in 1..Len(posting') : Part(posting'[i], buffer)
      BY <1>3, PostsFacts DEF FlushCaller
    <2>3. ASSUME NEW i \in 1..Len(posting'), NEW j \in 1..Len(posting')
          PROVE  posting'[i].inv \cap Saved(posting'[j]) = {}
      <3>1. posting'[i].inv \subseteq buffer.inv
        BY <2>2 DEF Part
      <3>2. Saved(posting'[j]) \subseteq Saved(buffer)
        BY <2>2 DEF Part, Saved
      <3>. QED
        BY <3>1, <3>2 DEF Disjoint, DisjointBuffer
    <2>. QED
      BY <2>1, <2>3 DEF Disjoint
  <1>4. CASE Deliver
    <2>1. buffer' = buffer /\ posting \in Seq(Post) /\ posting # <<>> /\ posting' = Tail(posting)
      BY <1>4 DEF Deliver
    <2>2. \A i \in 1..Len(posting') : /\ i + 1 \in 1..Len(posting)
                                      /\ posting'[i] = posting[i + 1]
      BY <2>1
    <2>. QED
      BY <2>1, <2>2 DEF Disjoint
  <1>5. CASE Process \/ Timeout \/ FlushDone \/ UNCHANGED vars
    <2>1. UNCHANGED <<buffer, posting>>
      BY <1>5 DEF Process, SendSaveToCaller, SendInvsToCallers, Enqueue, Timeout,
                  FlushDone, vars
    <2>. QED
      BY <1>1, <2>1
  <1>. QED
    BY <1>2, <1>3, <1>4, <1>5 DEF Next, Sender

\* What one flush tells a caller to save and what it tells it to invalidate
\* have no line in common, so their order does not matter.
THEOREM SendsDisjoint == Spec => []Disjoint
  <1>1. DisjointInv => Disjoint
    BY DEF DisjointInv
  <1>. QED
    BY DisjointInit, DisjointNext, <1>1, PTL DEF Spec

-----------------------------------------------------------------------------
\* The requests of one flush name an entry at most once: an entry that is
\* saved is not invalidated (Disjoint), and each list is posted once.
Once == \A e \in Entry : \A i, j \in Posted(e) : i = j

\* LastWord, entry by entry.
Told(e) ==
    \/ \E i \in Queued(e) :
          /\ \A j \in Queued(e) : j <= i
          /\ last[e] = HttpQueue[i].val
    \/ /\ Queued(e) = {}
       /\ e \in Buffered(buffer)
       /\ last[e] = buffer.save[e]
    \/ /\ Queued(e) = {}
       /\ e \notin Buffered(buffer)
       /\ \E i \in Posted(e) : last[e] = posting[i].save[e]
    \/ /\ Queued(e) = {}
       /\ e \notin Buffered(buffer)
       /\ Posted(e) = {}
       /\ last[e] = told[e]

LastWordInv == DisjointInv /\ Once /\ LastWord

\* After addRequest the buffer says of the request's entries what the request
\* says, and of the others what it said.
LEMMA AddRequestSays ==
    ASSUME NEW b \in Buffer, NEW request \in Request, NEW e \in Entry
    PROVE  LET c == AddRequest(b, request)
           IN  /\ e \in request.entries =>
                     e \in Buffered(c) /\ c.save[e] = request.val
               /\ e \notin request.entries =>
                     (e \in Buffered(c) <=> e \in Buffered(b)) /\ c.save[e] = b.save[e]
  <1>. USE DEF Buffered, Saved, Buffer
  <1>1. CASE request.save
    <2>1. PICK x \in Entry : /\ request.entries = {x}
                            /\ request.val \in Val
                            /\ (CHOOSE y \in request.entries : TRUE) = x
      BY <1>1, RequestFacts
    <2>2. AddRequest(b, request) = AddSave(b, x, request.val)
      BY <1>1, <2>1 DEF AddRequest
    <2>3. request.val # NoVal
      BY <2>1, NoValAssumption
    <2>. QED
      BY <2>1, <2>2, <2>3 DEF AddSave
  <1>2. CASE ~request.save
    <2>1. AddRequest(b, request) = AddInvalidate(b, request.entries)
      BY <1>2 DEF AddRequest
    <2>2. request.val = NoVal
      BY <1>2 DEF Request
    <2>. QED
      BY <2>1, <2>2, RequestFacts DEF AddInvalidate
  <1>. QED
    BY <1>1, <1>2

\* Two lists of one.
LEMMA SingletonsConcat ==
    ASSUME NEW x, NEW y
    PROVE  <<x>> \o <<y>> = <<x, y>>
  <1>1. /\ <<x>> \in Seq({x, y}) /\ <<y>> \in Seq({x, y}) /\ <<x, y>> \in Seq({x, y})
        /\ Len(<<x>>) = 1 /\ Len(<<y>>) = 1 /\ Len(<<x, y>>) = 2
    OBVIOUS
  <1>2. /\ <<x>> \o <<y>> \in Seq({x, y})
        /\ Len(<<x>> \o <<y>>) = 2
        /\ \A i \in 1..2 : (<<x>> \o <<y>>)[i] = <<x, y>>[i]
    BY <1>1, ConcatProperties
  <1>. QED
    BY <1>1, <1>2, SeqEqual

\* What one flush of a caller posts: each buffered entry of the caller, once,
\* with what the buffer said of it, and nothing else.
LEMMA PostsSay ==
    ASSUME buffer \in Buffer, DisjointBuffer(buffer), NEW caller, NEW e \in Entry
    PROVE  LET posts == InvPost(caller) \o SavePost(caller)
               on == {i \in 1..Len(posts) : e \in posts[i].inv \cup Saved(posts[i])}
           IN  /\ \A i, j \in on : i = j
               /\ \A i \in on : posts[i].save[e] = buffer.save[e]
               /\ on # {} <=> e \in Buffered(buffer) /\ e[1] = caller
  <1>. DEFINE inv == InvOf(buffer, caller)
              save == SaveOf(buffer, caller)
              p == [inv |-> inv, save |-> [x \in Entry |-> NoVal]]
              q == [inv |-> {},
                    save |-> [x \in Entry |-> IF x \in save THEN buffer.save[x] ELSE NoVal]]
              posts == InvPost(caller) \o SavePost(caller)
              on == {i \in 1..Len(posts) : e \in posts[i].inv \cup Saved(posts[i])}
  <1>1. InvPost(caller) = IF inv = {} THEN <<>> ELSE <<p>>
    BY DEF InvPost, Empty
  <1>2. SavePost(caller) = IF save = {} THEN <<>> ELSE <<q>>
    <2>1. [Empty EXCEPT !.save =
              [x \in Entry |-> IF x \in save THEN buffer.save[x] ELSE NoVal]] = q
      BY DEF Empty
    <2>. QED
      BY <2>1 DEF SavePost
  <1>3. /\ p.inv = inv /\ Saved(p) = {} /\ p.save[e] = NoVal
        /\ q.inv = {} /\ Saved(q) = save
        /\ q.save[e] = IF e \in save THEN buffer.save[e] ELSE NoVal
    BY DEF Saved, SaveOf
  <1>4. inv \cap save = {}
    BY DEF DisjointBuffer, InvOf, SaveOf
  <1>5. /\ e \in inv => buffer.save[e] = NoVal
        /\ e \in inv \cup save <=> e \in Buffered(buffer) /\ e[1] = caller
    BY DEF DisjointBuffer, InvOf, SaveOf, Saved, Buffered
  <1>. HIDE DEF inv, save, p, q
  <1>6. CASE inv = {} /\ save = {}
    <2>1. posts = <<>>
      BY <1>1, <1>2, <1>6
    <2>2. on = {}
      BY <2>1
    <2>. QED
      BY <2>2, <1>5, <1>6
  <1>7. CASE inv # {} /\ save = {}
    <2>1. posts = <<p>>
      BY <1>1, <1>2, <1>7
    <2>2. on = IF e \in inv THEN {1} ELSE {}
      BY <2>1, <1>3
    <2>. QED
      BY <2>1, <2>2, <1>3, <1>5, <1>7
  <1>8. CASE inv = {} /\ save # {}
    <2>1. posts = <<q>>
      BY <1>1, <1>2, <1>8
    <2>2. on = IF e \in save THEN {1} ELSE {}
      BY <2>1, <1>3
    <2>. QED
      BY <2>1, <2>2, <1>3, <1>5, <1>8
  <1>9. CASE inv # {} /\ save # {}
    <2>1. posts = <<p, q>>
      <3>1. InvPost(caller) = <<p>> /\ SavePost(caller) = <<q>>
        BY <1>1, <1>2, <1>9
      <3>2. <<p>> \o <<q>> = <<p, q>>
        BY SingletonsConcat
      <3>. QED
        BY <3>1, <3>2
    <2>2. on = (IF e \in inv THEN {1} ELSE {}) \cup (IF e \in save THEN {2} ELSE {})
      BY <2>1, <1>3
    <2>3. posts[1] = p /\ posts[2] = q
      BY <2>1
    <2>. HIDE DEF posts, on
    <2>4. CASE e \in inv
      <3>1. e \notin save /\ on = {1}
        BY <2>2, <2>4, <1>4
      <3>. QED
        BY <3>1, <2>3, <2>4, <1>3, <1>5 DEF posts, on
    <2>5. CASE e \in save
      <3>1. e \notin inv /\ on = {2}
        BY <2>2, <2>5, <1>4
      <3>. QED
        BY <3>1, <2>3, <2>5, <1>3, <1>5 DEF posts, on
    <2>6. CASE e \notin inv \cup save
      <3>1. on = {}
        BY <2>2, <2>6
      <3>. QED
        BY <3>1, <2>6, <1>5 DEF posts, on
    <2>. QED
      BY <2>4, <2>5, <2>6
  <1>. QED
    BY <1>6, <1>7, <1>8, <1>9

\* Process adds its word at the end of the queue.
LEMMA EnqueueSays ==
    ASSUME DisjointInv, NEW e \in Entry, Told(e), NEW request \in Request, Enqueue(request)
    PROVE  Told(e)'
  <1>. DEFINE n == Len(HttpQueue)
  <1>1. HttpQueue \in Seq(Request)
    BY DEF DisjointInv, TypeInv, TypeOK
  <1>2. /\ HttpQueue' = Append(HttpQueue, request)
        /\ Len(HttpQueue') = n + 1
        /\ n \in Nat
        /\ HttpQueue'[n + 1] = request
        /\ \A i \in 1..n : HttpQueue'[i] = HttpQueue[i]
    BY <1>1 DEF Enqueue
  <1>3. last'[e] = IF e \in request.entries THEN request.val ELSE last[e]
    BY DEF Enqueue
  <1>4. CASE e \in request.entries
    <2>1. n + 1 \in Queued(e)' /\ \A j \in Queued(e)' : j <= n + 1
      BY <1>2, <1>4 DEF Queued
    <2>. QED
      BY <2>1, <1>2, <1>3, <1>4 DEF Told
  <1>5. CASE e \notin request.entries
    <2>1. Queued(e)' = Queued(e) /\ \A i \in Queued(e) : HttpQueue'[i] = HttpQueue[i]
      BY <1>2, <1>5 DEF Queued
    <2>2. UNCHANGED <<buffer, posting, told>> /\ Posted(e)' = Posted(e)
      BY DEF Enqueue, Posted
    <2>. QED
      BY <2>1, <2>2, <1>3, <1>5 DEF Told
  <1>. QED
    BY <1>4, <1>5

\* The word moves from the head of the queue to the buffer.
LEMMA ReceiveSays ==
    ASSUME DisjointInv, NEW e \in Entry, Told(e), Receive
    PROVE  Told(e)'
  <1>. DEFINE request == Head(HttpQueue)
  <1>1. HttpQueue \in Seq(Request) /\ HttpQueue # <<>> /\ buffer \in Buffer
    BY DEF Receive, DisjointInv, TypeInv, TypeOK
  <1>2. request \in Request /\ request = HttpQueue[1]
    BY <1>1
  <1>3. /\ Len(HttpQueue) \in Nat
        /\ Len(HttpQueue') = Len(HttpQueue) - 1
        /\ \A i \in 1..Len(HttpQueue') : HttpQueue'[i] = HttpQueue[i + 1]
    BY <1>1 DEF Receive
  <1>4. UNCHANGED <<posting, told, last>> /\ buffer' = AddRequest(buffer, request)
    BY DEF Receive
  <1>5. Posted(e)' = Posted(e)
    BY <1>4 DEF Posted
  <1>6. /\ \A i \in Queued(e)' : i + 1 \in Queued(e) /\ HttpQueue'[i] = HttpQueue[i + 1]
        /\ \A i \in Queued(e) : i \in Nat /\ (i # 1 => i - 1 \in Queued(e)')
        /\ Queued(e)' \subseteq Nat \ {0}
        /\ 1 \in Queued(e) <=> e \in request.entries
    BY <1>1, <1>2, <1>3 DEF Queued
  <1>. HIDE DEF request
  <1>7. /\ e \in request.entries =>
              e \in Buffered(buffer') /\ buffer'.save[e] = request.val
        /\ e \notin request.entries =>
              (e \in Buffered(buffer') <=> e \in Buffered(buffer)) /\ buffer'.save[e] = buffer.save[e]
    BY <1>1, <1>2, <1>4, AddRequestSays
  <1>8. CASE Queued(e) = {}
    <2>1. Queued(e)' = {} /\ e \notin request.entries
      BY <1>6, <1>8
    <2>. QED
      BY <2>1, <1>4, <1>5, <1>7, <1>8 DEF Told, Buffered
  <1>9. CASE Queued(e) # {}
    <2>1. PICK i \in Queued(e) : (\A j \in Queued(e) : j <= i) /\ last[e] = HttpQueue[i].val
      BY <1>9 DEF Told
    <2>2. CASE i = 1
      <3>1. Queued(e)' = {} /\ e \in request.entries
        BY <2>1, <2>2, <1>6
      <3>. QED
        BY <3>1, <2>1, <2>2, <1>2, <1>4, <1>7 DEF Told
    <2>3. CASE i # 1
      <3>1. i - 1 \in Queued(e)' /\ i \in Nat
        BY <2>3, <1>6
      <3>2. \A j \in Queued(e)' : j <= i - 1
        BY <2>1, <3>1, <1>6
      <3>3. HttpQueue'[i - 1] = HttpQueue[i]
        BY <3>1, <1>6
      <3>. QED
        BY <3>1, <3>2, <3>3, <2>1, <1>4 DEF Told
    <2>. QED
      BY <2>2, <2>3
  <1>. QED
    BY <1>8, <1>9

\* The words on a caller's lines move from the buffer to the posts.
LEMMA FlushSays ==
    ASSUME DisjointInv, NEW e \in Entry, Told(e), NEW caller \in Caller, FlushCaller(caller)
    PROVE  Told(e)'
  <1>. DEFINE posts == InvPost(caller) \o SavePost(caller)
              on == {i \in 1..Len(posts) : e \in posts[i].inv \cup Saved(posts[i])}
  <1>1. buffer \in Buffer /\ DisjointBuffer(buffer)
    BY DEF DisjointInv, TypeInv, TypeOK, Disjoint
  <1>2. /\ \A i \in on : posts[i].save[e] = buffer.save[e]
        /\ on # {} <=> e \in Buffered(buffer) /\ e[1] = caller
    BY <1>1, PostsSay
  <1>3. posting' = posts /\ Posted(e)' = on
    BY DEF FlushCaller, Posted
  <1>. HIDE DEF posts, on
  <1>4. Posted(e) = {}
    BY DEF FlushCaller, Posted
  <1>5. UNCHANGED <<HttpQueue, told, last>> /\ Queued(e)' = Queued(e)
    BY DEF FlushCaller, Queued
  <1>6. /\ e \in Buffered(buffer') <=> e \in Buffered(buffer) /\ e[1] # caller
        /\ e[1] # caller => buffer'.save[e] = buffer.save[e]
    BY <1>1 DEF FlushCaller, Without, Buffered, Saved, InvOf, Buffer
  <1>7. CASE Queued(e) # {}
    BY <1>5, <1>7 DEF Told
  <1>8. CASE Queued(e) = {} /\ e \in Buffered(buffer)
    BY <1>2, <1>3, <1>5, <1>6, <1>8 DEF Told
  <1>9. CASE Queued(e) = {} /\ e \notin Buffered(buffer)
    BY <1>2, <1>3, <1>4, <1>5, <1>6, <1>9 DEF Told
  <1>. QED
    BY <1>7, <1>8, <1>9

\* The indices of the posts that name an entry, after the first is delivered.
LEMMA DeliverPosted ==
    ASSUME DisjointInv, NEW e \in Entry, Deliver
    PROVE  /\ posting \in Seq(Post) /\ posting # <<>>
           /\ Head(posting) = posting[1] /\ posting[1] \in Post
           /\ \A i \in Posted(e)' : /\ i \in Nat /\ i + 1 \in Posted(e)
                                    /\ posting'[i] = posting[i + 1]
           /\ \A i \in Posted(e) : i \in Nat /\ (i # 1 => i - 1 \in Posted(e)')
           /\ 1 \in Posted(e) <=> e \in posting[1].inv \cup Saved(posting[1])
  <1>1. posting \in Seq(Post) /\ posting # <<>> /\ posting' = Tail(posting)
    BY DEF Deliver, DisjointInv, TypeInv, TypeOK
  <1>2. /\ Len(posting) \in Nat \ {0}
        /\ Len(posting') = Len(posting) - 1
        /\ \A i \in 1..Len(posting') : posting'[i] = posting[i + 1]
    BY <1>1
  <1>. QED
    BY <1>1, <1>2 DEF Posted, Saved

\* The word reaches the caller's manager.
LEMMA DeliverSays ==
    ASSUME DisjointInv, Once, NEW e \in Entry, Told(e), Deliver
    PROVE  Told(e)'
  <1>. DEFINE post == posting[1]
  <1>1. UNCHANGED <<HttpQueue, buffer, last>> /\ Queued(e)' = Queued(e)
    BY DEF Deliver, Queued
  <1>2. told'[e] = IF e \in post.inv THEN NoVal
                   ELSE IF e \in Saved(post) THEN post.save[e] ELSE told[e]
    BY DeliverPosted DEF Deliver
  <1>3. CASE Queued(e) # {} \/ e \in Buffered(buffer)
    BY <1>1, <1>3 DEF Told
  <1>4. CASE Queued(e) = {} /\ e \notin Buffered(buffer) /\ Posted(e) = {}
    <2>1. Posted(e)' = {} /\ e \notin post.inv \cup Saved(post)
      BY <1>4, DeliverPosted
    <2>. QED
      BY <2>1, <1>1, <1>2, <1>4 DEF Told
  <1>5. CASE Queued(e) = {} /\ e \notin Buffered(buffer) /\ Posted(e) # {}
    <2>1. PICK i \in Posted(e) : last[e] = posting[i].save[e]
      BY <1>5 DEF Told
    <2>2. CASE i = 1
      <3>1. Posted(e)' = {}
        <4>1. SUFFICES ASSUME NEW j \in Posted(e)' PROVE FALSE
          OBVIOUS
        <4>2. j \in Nat /\ j + 1 \in Posted(e)
          BY DeliverPosted
        <4>3. j + 1 = 1
          BY <4>2, <2>2 DEF Once
        <4>4. j = 0
          BY <4>2, <4>3
        <4>. QED
          BY <4>4 DEF Posted
      <3>2. e \in post.inv \cup Saved(post)
        BY <2>2, DeliverPosted
      <3>3. e \in post.inv => post.save[e] = NoVal
        <4>1. 1 \in 1..Len(posting)
          BY <2>1, <2>2 DEF Posted
        <4>. QED
          BY <4>1 DEF DisjointInv, Disjoint, Saved
      <3>4. told'[e] = post.save[e]
        BY <1>2, <3>2, <3>3
      <3>. QED
        BY <3>1, <3>4, <2>1, <2>2, <1>1, <1>5 DEF Told
    <2>3. CASE i # 1
      <3>1. i - 1 \in Posted(e)' /\ i \in Nat /\ posting'[i - 1] = posting[i]
        BY <2>3, DeliverPosted
      <3>. QED
        BY <3>1, <2>1, <1>1, <1>5 DEF Told
    <2>. QED
      BY <2>2, <2>3
  <1>. QED
    BY <1>3, <1>4, <1>5

LEMMA LastWordInit == Init => LastWordInv
  <1>. SUFFICES ASSUME Init PROVE Once /\ LastWord
    BY DisjointInit DEF LastWordInv
  <1>1. ASSUME NEW e \in Entry
        PROVE  Posted(e) = {} /\ Queued(e) = {} /\ e \notin Buffered(buffer) /\ last[e] = told[e]
    BY DEF Init, Posted, Queued, Buffered, Saved, Empty
  <1>. QED
    BY <1>1 DEF Once, LastWord

\* The posts in progress name an entry at most once, after any step.
LEMMA OnceNext == DisjointInv /\ Once /\ [Next]_vars => Once'
  <1>. SUFFICES ASSUME DisjointInv, Once, [Next]_vars, NEW e \in Entry
                PROVE  \A i, j \in Posted(e)' : i = j
    BY DEF Once
  <1>1. CASE UNCHANGED posting
    BY <1>1 DEF Once, Posted
  <1>2. ASSUME NEW caller \in Caller, FlushCaller(caller)
        PROVE  \A i, j \in Posted(e)' : i = j
    <2>1. buffer \in Buffer /\ DisjointBuffer(buffer)
      BY DEF DisjointInv, TypeInv, TypeOK, Disjoint
    <2>. DEFINE posts == InvPost(caller) \o SavePost(caller)
                on == {i \in 1..Len(posts) : e \in posts[i].inv \cup Saved(posts[i])}
    <2>2. \A i, j \in on : i = j
      BY <2>1, PostsSay
    <2>3. Posted(e)' = on
      BY <1>2 DEF FlushCaller, Posted
    <2>. QED
      BY <2>2, <2>3
  <1>3. CASE Deliver
    <2>1. ASSUME NEW i \in Posted(e)', NEW j \in Posted(e)' PROVE i = j
      <3>1. i \in Nat /\ j \in Nat /\ i + 1 = j + 1
        BY <1>3, DeliverPosted DEF Once
      <3>. QED
        BY <3>1
    <2>. QED
      BY <2>1
  <1>4. CASE Process \/ Receive \/ Timeout \/ FlushDone \/ UNCHANGED vars
    <2>1. UNCHANGED posting
      BY <1>4 DEF Process, SendSaveToCaller, SendInvsToCallers, Enqueue, Receive, Timeout,
                  FlushDone, vars
    <2>. QED
      BY <1>1, <2>1
  <1>. QED
    BY <1>2, <1>3, <1>4 DEF Next, Sender

LEMMA LastWordNext == LastWordInv /\ [Next]_vars => LastWordInv'
  <1>. SUFFICES ASSUME LastWordInv, [Next]_vars PROVE LastWord'
    BY DisjointNext, OnceNext DEF LastWordInv
  <1>1. \A e \in Entry : Told(e)
    BY DEF LastWordInv, LastWord, Told
  <1>2. SUFFICES ASSUME NEW e \in Entry PROVE Told(e)'
    BY DEF LastWord, Told
  <1>3. ASSUME NEW x \in Entry, NEW v \in Val, SendSaveToCaller(x, v)
        PROVE  Told(e)'
    <2>1. [save |-> TRUE, entries |-> {x}, val |-> v] \in Request
      BY DEF Request
    <2>. QED
      BY <2>1, <1>1, <1>3, EnqueueSays DEF SendSaveToCaller, LastWordInv
  <1>4. ASSUME NEW entries \in SUBSET Entry, SendInvsToCallers(entries)
        PROVE  Told(e)'
    <2>1. [save |-> FALSE, entries |-> entries, val |-> NoVal] \in Request
      BY DEF Request
    <2>. QED
      BY <2>1, <1>1, <1>4, EnqueueSays DEF SendInvsToCallers, LastWordInv
  <1>5. CASE Receive
    BY <1>1, <1>5, ReceiveSays DEF LastWordInv
  <1>6. ASSUME NEW caller \in Caller, FlushCaller(caller)
        PROVE  Told(e)'
    BY <1>1, <1>6, FlushSays DEF LastWordInv
  <1>7. CASE Deliver
    BY <1>1, <1>7, DeliverSays DEF LastWordInv
  <1>8. CASE Timeout \/ FlushDone \/ UNCHANGED vars
    BY <1>1, <1>8 DEF Timeout, FlushDone, vars, Told, Queued, Posted, Buffered, Saved
  <1>. QED
    BY <1>3, <1>4, <1>5, <1>6, <1>7, <1>8 DEF Next, Process, Sender

\* Whatever the buffer merges, cancels and reorders, once queue, buffer and
\* posts have drained the callers are left with what Process said last.
THEOREM LastWordKept == Spec => []LastWord
  <1>1. LastWordInv => LastWord
    BY DEF LastWordInv
  <1>. QED
    BY LastWordInit, LastWordNext, <1>1, PTL DEF Spec
=============================================================================
