--------------------------- MODULE HttpCacheProofs ---------------------------
(***************************************************************************)
(* Proofs that the HTTP cache is to be believed when one process at a time *)
(* uses its directory and a write that fails leaves the old file: for any  *)
(* answers, lifetimes and versions, and deaths at any moment.  Versions    *)
(* only go up and the body is written first, so the validator on disk is   *)
(* never newer than the body beside it; a 304 to it can only be about that *)
(* body.                                                                   *)
(***************************************************************************)
EXTENDS HttpCache, TLAPS

\* The circumstances of the proofs.
Alone == ~Truncates /\ \A p, q \in Processes : p = q

Entries == [tag : Nat, expires : Nat, decodes : BOOLEAN]
Phases  == {"idle", "read", "cached", "asked", "answered", "dated", "written"}
Tasks   == [at : Phases, entry : Entries, text : Nat, cached : BOOLEAN, code : Nat, tag : Nat, answer : Nat,
            policy : [age : 0 .. Lifetime, store : BOOLEAN], deadline : Nat, stored : Entries]

TypeOK ==
    /\ now \in Nat /\ current \in Versions /\ held \in [Versions -> Nat]
    /\ body \in Nat /\ meta \in Entries
    /\ task \in [Processes -> Tasks] /\ served.at \in Nat

\* The later of two versions was also the later to be replaced.
ServerMovesOn ==
    /\ held[current] = now
    /\ \A v, w \in Versions : v <= w /\ w <= current => held[v] <= held[w]
    /\ \A v \in Versions : held[v] <= now

\* The text b may be served on the strength of entry e: e does not outlive it.
Vouches(e, b) ==
    /\ e.tag <= b
    /\ b \in Versions => e.expires <= held[b] + Lifetime + Timeout
    /\ b = None => e.expires = 0

DiskAgrees == body <= current /\ Vouches(meta, body)

\* What a fetch knows at each step of it.
TaskAgrees(t) ==
    /\ t.at = "read" => Vouches(t.entry, body)
    /\ t.at = "cached" => t.text = body /\ Vouches(t.entry, t.text) /\ (t.cached => body # None)
    /\ t.at = "asked" => t.text = body /\ t.tag <= t.text /\ (t.tag # None => t.cached) 
                       /\ now <= t.deadline /\ t.deadline <= now + Timeout
    /\ t.at \in {"answered", "dated", "written"} =>
          /\ t.answer \in Versions /\ t.answer <= current /\ body <= t.answer
          /\ t.code = 304 => t.cached /\ t.text = t.answer
          /\ t.tag <= t.answer
          /\ now <= held[t.answer] + Timeout
    /\ t.at = "answered" => now <= t.deadline /\ t.deadline <= held[t.answer] + Timeout
    /\ t.at \in {"dated", "written"} =>
          t.stored.tag <= t.answer /\ t.stored.expires <= held[t.answer] + Lifetime + Timeout
    /\ t.at = "written" => body = t.answer

CacheInvariant ==
    /\ TypeOK /\ ServerMovesOn /\ DiskAgrees
    /\ \A p \in Processes : TaskAgrees(task[p])
    /\ CacheIsBelievable

-----------------------------------------------------------------------------
(* Typing. *)

LEMMA InitialEntries == NoEntry \in Entries /\ Idle \in Tasks
BY CacheAssumption DEF NoEntry, Idle, Entries, Tasks, Phases, None

\* What Done returns is the version the server answered with, also on a 304.
LEMMA ReceivedIsAnswer ==
    ASSUME NEW p \in Processes, TaskAgrees(task[p]), task[p].at \in {"answered", "dated", "written"}
    PROVE  Received(p) = task[p].answer
BY DEF Received, TaskAgrees

-----------------------------------------------------------------------------
(* What a step of the only process has to keep. *)

\* A step that leaves the server and what was served alone.
LEMMA StepKeeps ==
    ASSUME Alone, CacheInvariant, NEW p \in Processes,
           UNCHANGED <<now, current, held, served>>,
           task' = [task EXCEPT ![p] = task'[p]], task'[p] \in Tasks,
           body' \in Nat, meta' \in Entries, DiskAgrees', TaskAgrees(task[p])'
    PROVE  CacheInvariant'
<1> USE DEF CacheInvariant
<1>1. TypeOK'
  BY DEF TypeOK
<1>2. ServerMovesOn'
  BY DEF ServerMovesOn
<1>3. ASSUME NEW q \in Processes
      PROVE  TaskAgrees(task[q])'
  BY DEF Alone
<1>4. CacheIsBelievable'
  BY DEF CacheIsBelievable, ServedWithinLifetime, NotModifiedIsWhatWeHold
<1> QED
  BY <1>1, <1>2, <1>3, <1>4

\* A step that ends the fetch with a text, or with an error: served' says which.
LEMMA ReturnKeeps ==
    ASSUME Alone, CacheInvariant, NEW p \in Processes,
           UNCHANGED server, task' = [task EXCEPT ![p] = Idle],
           body' \in Nat, meta' \in Entries, served'.at \in Nat, DiskAgrees', CacheIsBelievable'
    PROVE  CacheInvariant'
<1> USE DEF CacheInvariant
<1>1. TypeOK'
  BY InitialEntries DEF TypeOK, server
<1>2. ServerMovesOn'
  BY DEF ServerMovesOn, server
<1>3. ASSUME NEW q \in Processes
      PROVE  TaskAgrees(task[q])'
  <2>1. task'[q] = Idle
    BY DEF Alone, TypeOK
  <2>2. Idle.at = "idle"
    BY DEF Idle
  <2> QED
    BY <2>1, <2>2 DEF TaskAgrees
<1> QED
  BY <1>1, <1>2, <1>3

\* What Done returns is believable.
LEMMA DoneBelievable ==
    ASSUME CacheInvariant, NEW p \in Processes, Done(p), UNCHANGED server,
           task[p].at \in {"answered", "dated", "written"}
    PROVE  task' = [task EXCEPT ![p] = Idle] /\ served'.at \in Nat /\ CacheIsBelievable'
<1>1. /\ task' = [task EXCEPT ![p] = Idle]
      /\ served'.text = Received(p) /\ served'.at = now /\ served'.about = task[p].answer
  BY DEF Done, Returns, Goes
<1>2. Received(p) = task[p].answer
  BY ReceivedIsAnswer DEF CacheInvariant
<1>3. now <= held[task[p].answer] + Timeout /\ task[p].answer \in Versions
  BY DEF CacheInvariant, TaskAgrees
<1>4. now \in Nat /\ held'[task[p].answer] \in Nat /\ held' = held
  BY <1>3 DEF CacheInvariant, TypeOK, server
<1>5. now <= held'[task[p].answer] + Lifetime + Timeout
  BY <1>3, <1>4, CacheAssumption
<1> QED
  BY <1>1, <1>2, <1>4, <1>5 DEF CacheIsBelievable, ServedWithinLifetime, NotModifiedIsWhatWeHold

\* A fetch that has not returned has its types, and its versions are numbers.
LEMMA TaskTypes ==
    ASSUME CacheInvariant, NEW p \in Processes
    PROVE  /\ task[p] \in Tasks /\ task[p].at \in Phases /\ task[p].entry \in Entries /\ task[p].stored \in Entries
           /\ task[p].text \in Nat /\ task[p].cached \in BOOLEAN /\ task[p].code \in Nat /\ task[p].tag \in Nat
           /\ task[p].answer \in Nat /\ task[p].deadline \in Nat
           /\ task[p].policy.age \in 0 .. Lifetime
           /\ now \in Nat /\ current \in Nat /\ body \in Nat /\ meta \in Entries
           /\ \A v \in Versions : held[v] \in Nat /\ v \in Nat
           /\ current \in Versions
           /\ TaskAgrees(task[p]) /\ served.at \in Nat
BY CacheAssumption DEF CacheInvariant, TypeOK, Tasks, Versions

LEMMA EntryTypes == \A e \in Entries : e.tag \in Nat /\ e.expires \in Nat /\ e.decodes \in BOOLEAN
BY DEF Entries

-----------------------------------------------------------------------------
(* fetchHTTP and writeCache, step by step. *)

LEMMA ReadMetaKeeps ==
    ASSUME Alone, CacheInvariant, NEW p \in Processes, ReadMeta(p)
    PROVE  CacheInvariant'
<1>1. task' = [task EXCEPT ![p] = [Idle EXCEPT !.at = "read", !.entry = meta]]
  BY DEF ReadMeta, Goes
<1>2. /\ task'[p] = [Idle EXCEPT !.at = "read", !.entry = meta]
      /\ task'[p] \in Tasks /\ task'[p].at = "read" /\ task'[p].entry = meta
  BY <1>1, TaskTypes, InitialEntries DEF Tasks, Phases, CacheInvariant, TypeOK
<1>3. TaskAgrees(task[p])'
  BY <1>2 DEF TaskAgrees, CacheInvariant, DiskAgrees, Vouches, ReadMeta, server
<1> QED
  BY <1>1, <1>2, <1>3, TaskTypes, StepKeeps DEF ReadMeta, server, CacheInvariant, DiskAgrees, Vouches

LEMMA ReadBodyKeeps ==
    ASSUME Alone, CacheInvariant, NEW p \in Processes, ReadBody(p)
    PROVE  CacheInvariant'
<1> DEFINE t == [task[p] EXCEPT !.at = "cached", !.text = body, !.cached = task[p].entry.decodes /\ body # None]
<1>1. task' = [task EXCEPT ![p] = t]
  BY DEF ReadBody, Goes
<1>2. t \in Tasks
  <2>1. task[p] \in Tasks /\ "cached" \in Phases /\ body \in Nat
    BY TaskTypes DEF Phases
  <2>2. (task[p].entry.decodes /\ body # None) \in BOOLEAN
    BY TaskTypes, EntryTypes
  <2> QED
    BY <2>1, <2>2 DEF Tasks
<1>3. t.at = "cached" /\ t.entry = task[p].entry /\ t.text = body /\ (t.cached => body # None)
  BY TaskTypes DEF Tasks
<1>4. task'[p] = t
  BY <1>1 DEF CacheInvariant, TypeOK
<1> HIDE DEF t
<1>5. Vouches(task[p].entry, body)
  BY TaskTypes DEF TaskAgrees, ReadBody
<1>6. TaskAgrees(task[p])'
  BY <1>3, <1>4, <1>5 DEF TaskAgrees, Vouches, ReadBody, server
<1> QED
  BY <1>1, <1>2, <1>4, <1>6, TaskTypes, StepKeeps DEF ReadBody, server, CacheInvariant, DiskAgrees, Vouches

LEMMA ServeFreshKeeps ==
    ASSUME Alone, CacheInvariant, NEW p \in Processes, ServeFresh(p)
    PROVE  CacheInvariant'
<1>1. /\ task' = [task EXCEPT ![p] = Idle]
      /\ served' = [text |-> task[p].text, at |-> now, by |-> "cache", about |-> None]
  BY DEF ServeFresh, Returns, Goes
<1>2. task[p].entry.expires > now /\ Vouches(task[p].entry, task[p].text)
  BY TaskTypes DEF ServeFresh, Fresh, TaskAgrees
<1>3. task[p].text \in Versions => now <= held[task[p].text] + Lifetime + Timeout
  BY <1>2, TaskTypes, EntryTypes, CacheAssumption DEF Vouches
<1>4. CacheIsBelievable'
  BY <1>1, <1>3 DEF CacheIsBelievable, ServedWithinLifetime, NotModifiedIsWhatWeHold, ServeFresh, server
<1> QED
  BY <1>1, <1>4, TaskTypes, ReturnKeeps DEF ServeFresh, server, CacheInvariant, DiskAgrees, Vouches

LEMMA AskKeeps ==
    ASSUME Alone, CacheInvariant, NEW p \in Processes, Ask(p)
    PROVE  CacheInvariant'
<1> DEFINE t == [task[p] EXCEPT !.at = "asked", !.deadline = now + Timeout,
                                !.tag = IF task[p].cached THEN task[p].entry.tag ELSE None]
<1>1. task' = [task EXCEPT ![p] = t]
  BY DEF Ask, Goes
<1>2. t \in Tasks
  <2>1. (IF task[p].cached THEN task[p].entry.tag ELSE None) \in Nat /\ now + Timeout \in Nat
    BY TaskTypes, EntryTypes, CacheAssumption DEF None
  <2>2. task[p] \in Tasks /\ "asked" \in Phases
    BY TaskTypes DEF Phases
  <2> QED
    BY <2>1, <2>2 DEF Tasks
<1>3. /\ t.at = "asked" /\ t.deadline = now + Timeout /\ t.text = task[p].text /\ t.cached = task[p].cached
      /\ t.tag = IF task[p].cached THEN task[p].entry.tag ELSE None
  BY TaskTypes DEF Tasks
<1>4. task'[p] = t
  BY <1>1 DEF CacheInvariant, TypeOK
<1> HIDE DEF t
<1>5. task[p].text = body /\ task[p].entry.tag <= body
  BY TaskTypes DEF TaskAgrees, Ask, Vouches
<1>6. t.text = body /\ t.tag <= t.text /\ (t.tag # None => t.cached) /\ now <= t.deadline
  BY <1>3, <1>5, TaskTypes, CacheAssumption DEF None
<1>7. TaskAgrees(task[p])'
  BY <1>3, <1>4, <1>6, TaskTypes, CacheAssumption DEF TaskAgrees, Ask, server
<1> QED
  BY <1>1, <1>2, <1>4, <1>7, TaskTypes, StepKeeps DEF Ask, server, CacheInvariant, DiskAgrees, Vouches

LEMMA AnswerKeeps ==
    ASSUME Alone, CacheInvariant, NEW p \in Processes, Answer(p)
    PROVE  CacheInvariant'
<1>1. PICK policy \in Policies, tagged \in BOOLEAN : Goes(p, Answered(task[p], policy, tagged))
  BY DEF Answer
<1> DEFINE code == IF task[p].tag = current THEN 304 ELSE 200
           tag  == IF tagged THEN current ELSE None
           t    == [task[p] EXCEPT !.at = "answered", !.policy = policy, !.answer = current, !.code = code, !.tag = tag]
<1>a. code \in Nat /\ (code = 304 => task[p].tag = current) /\ tag \in Nat /\ tag \in {current, None}
  BY TaskTypes DEF None
<1>b. task' = [task EXCEPT ![p] = t]
  BY <1>1, Zenon DEF Goes, Answered
<1> HIDE DEF code, tag
<1>2. t \in Tasks
  <2>1. policy \in [age : 0 .. Lifetime, store : BOOLEAN]
    BY CacheAssumption
  <2>2. task[p] \in Tasks /\ current \in Nat
    BY TaskTypes
  <2>3. "answered" \in Phases
    BY DEF Phases
  <2> QED
    BY <1>a, <2>1, <2>2, <2>3 DEF Tasks
<1>3. /\ t.at = "answered" /\ t.answer = current /\ t.deadline = task[p].deadline /\ t.text = task[p].text
      /\ t.cached = task[p].cached /\ t.tag \in {current, None}
      /\ t.code = 304 => task[p].tag = current
  BY <1>a, TaskTypes DEF Tasks
<1>4. task'[p] = t
  BY <1>b DEF CacheInvariant, TypeOK
<1> HIDE DEF t
<1>5. /\ task[p].at = "asked"
      /\ task[p].text = body /\ task[p].tag <= task[p].text /\ (task[p].tag # None => task[p].cached)
      /\ now <= task[p].deadline /\ task[p].deadline <= now + Timeout
  BY TaskTypes DEF TaskAgrees, Answer
<1>6. body <= current /\ held[current] = now
  BY DEF CacheInvariant, DiskAgrees, ServerMovesOn
<1>7. t.code = 304 => t.cached /\ t.text = t.answer
  BY <1>3, <1>5, <1>6, TaskTypes, CacheAssumption DEF Versions, None
<1>8. t.tag <= t.answer /\ now <= held[t.answer] + Timeout /\ t.deadline <= held[t.answer] + Timeout
  BY <1>3, <1>5, <1>6, TaskTypes, CacheAssumption DEF None
<1>9. UNCHANGED <<server, body, meta, served>>
  BY DEF Answer
<1>10. TaskAgrees(task[p])'
  BY <1>3, <1>4, <1>5, <1>6, <1>7, <1>8, <1>9, TaskTypes DEF TaskAgrees, server
<1>11. DiskAgrees'
  BY <1>9 DEF CacheInvariant, DiskAgrees, Vouches, server
<1> QED
  BY <1>b, <1>2, <1>4, <1>9, <1>10, <1>11, TaskTypes, StepKeeps DEF server

LEMMA FailKeeps ==
    ASSUME Alone, CacheInvariant, NEW p \in Processes, Fail(p) \/ Crash(p)
    PROVE  CacheInvariant'
BY TaskTypes, ReturnKeeps DEF Fail, Crash, Goes, server, CacheInvariant, DiskAgrees, Vouches, CacheIsBelievable,
   ServedWithinLifetime, NotModifiedIsWhatWeHold

LEMMA NotStoredKeeps ==
    ASSUME Alone, CacheInvariant, NEW p \in Processes, NotStored(p)
    PROVE  CacheInvariant'
BY TaskTypes, DoneBelievable, ReturnKeeps DEF NotStored, server, CacheInvariant, DiskAgrees, Vouches

LEMMA DateKeeps ==
    ASSUME Alone, CacheInvariant, NEW p \in Processes, Date(p)
    PROVE  CacheInvariant'
<1> DEFINE e == [tag |-> task[p].tag, expires |-> now + task[p].policy.age, decodes |-> TRUE]
           t == [task[p] EXCEPT !.at = "dated", !.stored = e]
<1>1. task' = [task EXCEPT ![p] = t]
  BY DEF Date, Goes
<1>2. e \in Entries
  BY TaskTypes, CacheAssumption DEF Entries
<1>3. e.tag = task[p].tag /\ e.expires <= now + Lifetime
  BY TaskTypes, CacheAssumption
<1> HIDE DEF e
<1>4. t \in Tasks
  <2>1. task[p] \in Tasks /\ "dated" \in Phases
    BY TaskTypes DEF Phases
  <2> QED
    BY <1>2, <2>1 DEF Tasks
<1>5. /\ t.at = "dated" /\ t.stored = e /\ t.answer = task[p].answer /\ t.code = task[p].code
      /\ t.text = task[p].text /\ t.cached = task[p].cached /\ t.tag = task[p].tag
  BY TaskTypes DEF Tasks
<1>6. task'[p] = t
  BY <1>1 DEF CacheInvariant, TypeOK
<1> HIDE DEF t
<1>7. task[p].at = "answered"
  BY DEF Date
<1>8. /\ task[p].answer \in Versions /\ now <= held[task[p].answer] + Timeout
      /\ task[p].tag <= task[p].answer
  BY <1>7, TaskTypes DEF TaskAgrees
<1>9. e.expires <= held[task[p].answer] + Lifetime + Timeout
  BY <1>2, <1>3, <1>8, TaskTypes, EntryTypes, CacheAssumption
<1>10. TaskAgrees(task[p])'
  BY <1>3, <1>5, <1>6, <1>7, <1>8, <1>9, TaskTypes DEF TaskAgrees, Date, server
<1> QED
  BY <1>1, <1>4, <1>6, <1>10, TaskTypes, StepKeeps DEF Date, server, CacheInvariant, DiskAgrees, Vouches

LEMMA WriteBodyKeeps ==
    ASSUME Alone, CacheInvariant, NEW p \in Processes, WriteBody(p)
    PROVE  CacheInvariant'
<1> DEFINE t == [task[p] EXCEPT !.at = "written"]
<1>1. task' = [task EXCEPT ![p] = t]
  BY DEF WriteBody, Goes
<1>2. t \in Tasks
  BY TaskTypes DEF Tasks, Phases
<1>3. /\ t.at = "written" /\ t.stored = task[p].stored /\ t.answer = task[p].answer /\ t.code = task[p].code
      /\ t.text = task[p].text /\ t.cached = task[p].cached /\ t.tag = task[p].tag
  BY TaskTypes DEF Tasks
<1>4. task'[p] = t
  BY <1>1 DEF CacheInvariant, TypeOK
<1> HIDE DEF t
<1>5. task[p].at = "dated"
  BY DEF WriteBody
<1>6. body' = task[p].answer
  BY <1>5, TaskTypes, ReceivedIsAnswer DEF WriteBody
<1>7. /\ task[p].answer \in Versions /\ body <= task[p].answer /\ task[p].answer <= current
  BY <1>5, TaskTypes DEF TaskAgrees
<1>8. meta.tag <= body /\ (body \in Versions => meta.expires <= held[body] + Lifetime + Timeout)
      /\ (body = None => meta.expires = 0)
  BY DEF CacheInvariant, DiskAgrees, Vouches
<1>9. DiskAgrees'
  <2>1. meta.tag <= body'
    BY <1>6, <1>7, <1>8, TaskTypes, EntryTypes
  <2>2. body \in Versions => held[body] <= held[body']
    BY <1>6, <1>7 DEF CacheInvariant, ServerMovesOn
  <2>3. body = None \/ body \in Versions
    BY <1>7, TaskTypes, CacheAssumption DEF Versions, None
  <2>4. meta.expires <= held[body'] + Lifetime + Timeout
    BY <1>6, <1>7, <1>8, <2>2, <2>3, TaskTypes, EntryTypes, CacheAssumption
  <2> QED
    BY <1>6, <1>7, <2>1, <2>4, CacheAssumption DEF DiskAgrees, Vouches, WriteBody, server, Versions, None
<1>10. TaskAgrees(task[p])'
  BY <1>3, <1>4, <1>5, <1>6, <1>7, TaskTypes DEF TaskAgrees, WriteBody, server
<1> QED
  BY <1>1, <1>2, <1>4, <1>6, <1>9, <1>10, TaskTypes, StepKeeps DEF WriteBody, server

LEMMA WriteMetaKeeps ==
    ASSUME Alone, CacheInvariant, NEW p \in Processes, WriteMeta(p)
    PROVE  CacheInvariant'
<1>1. task[p].at = "written" /\ meta' = task[p].stored /\ Done(p) /\ UNCHANGED server /\ body' = body
  BY DEF WriteMeta
<1>2. /\ body = task[p].answer /\ task[p].answer \in Versions /\ task[p].stored.tag <= task[p].answer
      /\ task[p].stored.expires <= held[task[p].answer] + Lifetime + Timeout
  BY <1>1, TaskTypes DEF TaskAgrees
<1>3. DiskAgrees'
  BY <1>1, <1>2, CacheAssumption DEF DiskAgrees, Vouches, server, CacheInvariant, Versions, None
<1> QED
  BY <1>1, <1>3, TaskTypes, DoneBelievable, ReturnKeeps

LEMMA BodyFailsKeeps ==
    ASSUME Alone, CacheInvariant, NEW p \in Processes, BodyFails(p)
    PROVE  CacheInvariant'
<1>1. body' = body
  BY DEF BodyFails, Alone
<1> QED
  BY <1>1, TaskTypes, DoneBelievable, ReturnKeeps DEF BodyFails, server, CacheInvariant, DiskAgrees, Vouches

LEMMA MetaFailsKeeps ==
    ASSUME Alone, CacheInvariant, NEW p \in Processes, MetaFails(p)
    PROVE  CacheInvariant'
<1>1. task[p].at = "written" /\ Done(p) /\ UNCHANGED server /\ body' = body /\ meta' \in {meta, NoEntry}
  BY DEF MetaFails
<1>2. NoEntry.tag = 0 /\ NoEntry.expires = 0
  BY DEF NoEntry, None
<1>3. DiskAgrees'
  <2>1. CASE meta' = meta
    BY <1>1, <2>1 DEF DiskAgrees, Vouches, server, CacheInvariant
  <2>2. CASE meta' = NoEntry
    BY <1>1, <1>2, <2>2, TaskTypes, CacheAssumption DEF DiskAgrees, Vouches, server, CacheInvariant
  <2> QED
    BY <1>1, <2>1, <2>2
<1> QED
  BY <1>1, <1>3, TaskTypes, InitialEntries, DoneBelievable, ReturnKeeps

-----------------------------------------------------------------------------
(* The clock and the server. *)

LEMMA TickKeeps ==
    ASSUME CacheInvariant, Tick
    PROVE  CacheInvariant'
<1>1. /\ now' = now + 1 /\ held' = [held EXCEPT ![current] = now + 1]
      /\ UNCHANGED <<current, body, meta, task, served>>
  BY DEF Tick
<1>2. TypeOK'
  BY <1>1 DEF CacheInvariant, TypeOK
<1>3. now \in Nat /\ current \in Versions /\ held \in [Versions -> Nat]
      /\ held[current] = now /\ \A v \in Versions : held[v] <= now
  BY DEF CacheInvariant, TypeOK, ServerMovesOn
<1>4. \A v \in Versions : held[v] <= held'[v] /\ held[v] \in Nat /\ held'[v] \in Nat
  BY <1>1, <1>3
<1>5. ServerMovesOn'
  BY <1>1, <1>3, <1>4 DEF CacheInvariant, ServerMovesOn, Versions
<1>6. ASSUME NEW e \in Entries, NEW b \in Nat, Vouches(e, b)
      PROVE  Vouches(e, b)'
  BY <1>4, <1>6, EntryTypes, CacheAssumption DEF Vouches
<1>7. DiskAgrees'
  BY <1>1, <1>6 DEF CacheInvariant, DiskAgrees, TypeOK, Vouches
<1>8. ASSUME NEW p \in Processes
      PROVE  TaskAgrees(task[p])'
  <2>1. task[p].at = "idle" \/ (task[p].at \in {"asked", "answered"} /\ now < task[p].deadline)
    BY DEF Tick
  <2>2. CASE task[p].at = "idle"
    BY <1>1, <2>2 DEF TaskAgrees
  <2>3. CASE task[p].at = "asked" /\ now < task[p].deadline
    BY <1>1, <1>3, <2>3, TaskTypes, CacheAssumption DEF TaskAgrees
  <2>4. CASE task[p].at = "answered" /\ now < task[p].deadline
    <3>1. /\ task[p].answer \in Versions /\ task[p].deadline <= held[task[p].answer] + Timeout
      BY <2>4, TaskTypes DEF TaskAgrees
    <3>2. now' <= task[p].deadline /\ task[p].deadline <= held'[task[p].answer] + Timeout
          /\ now' <= held'[task[p].answer] + Timeout
      BY <1>1, <1>4, <2>4, <3>1, TaskTypes, CacheAssumption
    <3> QED
      BY <1>1, <2>4, <3>1, <3>2, TaskTypes DEF TaskAgrees
  <2> QED
    BY <2>1, <2>2, <2>3, <2>4
<1>9. CacheIsBelievable'
  <2>1. /\ served.text \in Versions => served.at <= held[served.text] + Lifetime + Timeout
        /\ served.by = "revalidation" => served.text = served.about
        /\ served.at \in Nat
    BY DEF CacheInvariant, TypeOK, CacheIsBelievable, ServedWithinLifetime, NotModifiedIsWhatWeHold
  <2> QED
    BY <1>1, <1>4, <2>1, CacheAssumption DEF CacheIsBelievable, ServedWithinLifetime, NotModifiedIsWhatWeHold
<1> QED
  BY <1>2, <1>5, <1>7, <1>8, <1>9, <1>1 DEF CacheInvariant

LEMMA PublishKeeps ==
    ASSUME CacheInvariant, Publish
    PROVE  CacheInvariant'
<1>1. /\ current < LastVersion /\ current' = current + 1 /\ held' = [held EXCEPT ![current + 1] = now]
      /\ UNCHANGED <<now, body, meta, task, served>>
  BY DEF Publish
<1>2. now \in Nat /\ current \in Versions /\ held \in [Versions -> Nat] /\ current + 1 \in Versions
      /\ held[current] = now /\ \A v \in Versions : held[v] <= now
  BY <1>1, CacheAssumption DEF CacheInvariant, TypeOK, ServerMovesOn, Versions
<1>3. TypeOK'
  BY <1>1, <1>2 DEF CacheInvariant, TypeOK
<1>4. \A v \in Versions : held[v] <= held'[v] /\ held[v] \in Nat /\ held'[v] \in Nat /\ held'[v] <= now
  BY <1>1, <1>2
<1>5. ServerMovesOn'
  <2>1. ASSUME NEW v \in Versions, NEW w \in Versions, v <= w, w <= current + 1
        PROVE  held'[v] <= held'[w]
    <3>1. CASE w = current + 1
      BY <1>1, <1>2, <1>4, <3>1
    <3>2. CASE w # current + 1
      <4>1. w <= current /\ v # current + 1
        BY <2>1, <3>2, <1>2, CacheAssumption DEF Versions
      <4>2. held[v] <= held[w]
        BY <4>1, <2>1 DEF CacheInvariant, ServerMovesOn
      <4> QED
        BY <1>1, <1>2, <4>1, <4>2, <3>2
    <3> QED
      BY <3>1, <3>2
  <2> QED
    BY <1>1, <1>2, <1>4, <2>1 DEF ServerMovesOn
<1>6. ASSUME NEW e \in Entries, NEW b \in Nat, Vouches(e, b)
      PROVE  Vouches(e, b)'
  BY <1>4, <1>6, EntryTypes, CacheAssumption DEF Vouches
<1>7. DiskAgrees'
  BY <1>1, <1>2, <1>6, CacheAssumption DEF CacheInvariant, DiskAgrees, TypeOK, Vouches, Versions
<1>8. ASSUME NEW p \in Processes
      PROVE  TaskAgrees(task[p])'
  <2>1. task[p].entry \in Entries /\ body \in Nat /\ task[p].text \in Nat
    BY TaskTypes
  <2>2. /\ Vouches(task[p].entry, body) => Vouches(task[p].entry, body)'
        /\ Vouches(task[p].entry, task[p].text) => Vouches(task[p].entry, task[p].text)'
    BY <1>1, <1>6, <2>1 DEF Vouches
  <2>3. task[p].answer \in Versions =>
           held[task[p].answer] <= held'[task[p].answer]
           /\ held[task[p].answer] \in Nat /\ held'[task[p].answer] \in Nat
    BY <1>4
  <2> QED
    BY <1>1, <1>2, <2>2, <2>3, TaskTypes, EntryTypes, CacheAssumption DEF TaskAgrees
<1>9. CacheIsBelievable'
  <2>1. /\ served.text \in Versions => served.at <= held[served.text] + Lifetime + Timeout
        /\ served.by = "revalidation" => served.text = served.about
        /\ served.at \in Nat
    BY DEF CacheInvariant, TypeOK, CacheIsBelievable, ServedWithinLifetime, NotModifiedIsWhatWeHold
  <2> QED
    BY <1>1, <1>4, <2>1, CacheAssumption DEF CacheIsBelievable, ServedWithinLifetime, NotModifiedIsWhatWeHold
<1> QED
  BY <1>3, <1>5, <1>7, <1>8, <1>9, <1>1 DEF CacheInvariant

-----------------------------------------------------------------------------
(* The invariant, and what follows from it. *)

LEMMA CacheInit ==
    ASSUME Init
    PROVE  CacheInvariant
<1> USE CacheAssumption, InitialEntries DEF Init, None
<1>1. TypeOK
  BY DEF TypeOK, Versions
<1>2. ServerMovesOn
  BY DEF ServerMovesOn, Versions
<1>3. DiskAgrees
  BY DEF DiskAgrees, Vouches, Versions, NoEntry
<1>4. ASSUME NEW p \in Processes
      PROVE  TaskAgrees(task[p])
  BY DEF TaskAgrees, Idle
<1>5. CacheIsBelievable
  BY DEF CacheIsBelievable, ServedWithinLifetime, NotModifiedIsWhatWeHold, Versions
<1> QED
  BY <1>1, <1>2, <1>3, <1>4, <1>5 DEF CacheInvariant

LEMMA CacheNext ==
    ASSUME Alone, CacheInvariant, [Next]_vars
    PROVE  CacheInvariant'
<1>1. ASSUME NEW p \in Processes, Step(p)
      PROVE  CacheInvariant'
  BY <1>1, ReadMetaKeeps, ReadBodyKeeps, ServeFreshKeeps, AskKeeps, AnswerKeeps, FailKeeps, NotStoredKeeps,
     DateKeeps, WriteBodyKeeps, WriteMetaKeeps, BodyFailsKeeps, MetaFailsKeeps DEF Step
<1>2. ASSUME NEW p \in Processes, Crash(p)
      PROVE  CacheInvariant'
  BY <1>2, FailKeeps
<1>3. CASE UNCHANGED vars
  BY <1>3 DEF vars, CacheInvariant, TypeOK, ServerMovesOn, DiskAgrees, TaskAgrees, Vouches, CacheIsBelievable,
     ServedWithinLifetime, NotModifiedIsWhatWeHold
<1> QED
  BY <1>1, <1>2, <1>3, TickKeeps, PublishKeeps DEF Next

(* With one process on the cache directory, the two files and everything a *)
(* fetch has read from them agree with what the server had, after any      *)
(* write that failed as a whole and any death (readCache, fetchHTTP,       *)
(* writeCache).                                                            *)
THEOREM CacheInvariantHolds ==
    ASSUME Alone
    PROVE  Spec => []CacheInvariant
<1>1. Init => CacheInvariant
  BY CacheInit
<1>2. CacheInvariant /\ [Next]_vars => CacheInvariant'
  BY CacheNext
<1> QED
  BY <1>1, <1>2, PTL DEF Spec

(* A text is never returned later than the longest lifetime and one        *)
(* exchange after the server gave it up, and a 304 is always about the     *)
(* text returned on it: fetchHTTP, for any answers, versions and clock,    *)
(* when one process at a time uses the directory.                          *)
THEOREM CacheBelieved ==
    ASSUME Alone
    PROVE  Spec => []CacheIsBelievable
<1>1. CacheInvariant => CacheIsBelievable
  BY DEF CacheInvariant
<1> QED
  BY <1>1, CacheInvariantHolds, PTL

=============================================================================
