----------------------------- MODULE HttpCache -----------------------------
(***************************************************************************)
(* The disk cache of the document fetcher (pkg/salad/httpcache.go), for    *)
(* one URL: two files, the body and the metadata it is revalidated and     *)
(* dated by, written one after the other.  The processes that share the    *)
(* cache directory fetch the URL over and over; the server replaces what   *)
(* it serves, and never takes an old version, or its entity tag, up again. *)
(* A process may die between any two steps and a write may fail.           *)
(*                                                                         *)
(* A version stands for its text, its ETag and its Last-Modified alike.    *)
(***************************************************************************)
EXTENDS Naturals

CONSTANTS
    Processes,   \* the fetchers that share the cache directory
    Policies,    \* what an answer may say of caching: [age, store]
    Lifetime,    \* no answer lets itself be kept for longer
    Truncates,   \* a body write that fails may leave the file cut short
    Timeout,     \* httpTimeout, the longest an exchange lasts
    LastVersion, \* bound on the versions of the document
    LastTime     \* bound on the clock

ASSUME CacheAssumption ==
    /\ Truncates \in BOOLEAN /\ Timeout \in Nat /\ LastVersion \in Nat \ {0} /\ LastTime \in Nat /\ Lifetime \in Nat
    /\ Policies \subseteq [age : 0 .. Lifetime, store : BOOLEAN]

Versions == 1 .. LastVersion
None     == 0     \* no such file, no validator, no text
Torn     == LastVersion + 1     \* a body that is cut short

VARIABLES
    now,
    current,   \* the version the server has
    held,      \* version |-> the last instant at which the server had it
    body,      \* the .body file: a version or None
    meta,      \* the .meta file: its validator and the time it expires, or None
    task,      \* process |-> what its FetchText has done so far
    served     \* the last text a FetchText returned, and when

vars == <<now, current, held, body, meta, task, served>>
server == <<now, current, held>>

NoEntry == [tag |-> None, expires |-> 0, decodes |-> FALSE]
Idle    == [at |-> "idle", entry |-> NoEntry, text |-> None, cached |-> FALSE, code |-> 0, tag |-> None,
            answer |-> None, policy |-> [age |-> 0, store |-> FALSE], deadline |-> 0, stored |-> NoEntry]

Init ==
    /\ now = 0 /\ current = 1 /\ held = [v \in Versions |-> 0]
    /\ body = None /\ meta = NoEntry
    /\ task = [p \in Processes |-> Idle]
    /\ served = [text |-> None, at |-> 0, by |-> "none", about |-> None]

Goes(p, t)       == task' = [task EXCEPT ![p] = t]
Returns(p, text, by, about) ==
    /\ served' = [text |-> text, at |-> now, by |-> by, about |-> about]
    /\ Goes(p, Idle)

-----------------------------------------------------------------------------
(* The environment. *)

\* Time passes between fetches and during an exchange, which the client ends at
\* its deadline; what a process does on its own takes none.
Tick ==
    /\ now < LastTime
    /\ \A p \in Processes :
         \/ task[p].at = "idle"
         \/ task[p].at \in {"asked", "answered"} /\ now < task[p].deadline
    /\ now' = now + 1
    /\ held' = [held EXCEPT ![current] = now + 1]
    /\ UNCHANGED <<current, body, meta, task, served>>

Publish ==
    /\ current < LastVersion
    /\ current' = current + 1
    /\ held' = [held EXCEPT ![current + 1] = now]
    /\ UNCHANGED <<now, body, meta, task, served>>

\* The process dies; what it has written stays.
Crash(p) ==
    /\ task[p].at # "idle"
    /\ Goes(p, Idle)
    /\ UNCHANGED <<server, body, meta, served>>

-----------------------------------------------------------------------------
(* fetchHTTP. *)

\* readCache: the metadata, then the body.  A metadata file that is missing or
\* does not decode, or a missing body, is no cached response.
ReadMeta(p) ==
    /\ task[p].at = "idle" /\ now < LastTime
    /\ Goes(p, [Idle EXCEPT !.at = "read", !.entry = meta])
    /\ UNCHANGED <<server, body, meta, served>>

ReadBody(p) ==
    /\ task[p].at = "read"
    /\ Goes(p, [task[p] EXCEPT !.at = "cached", !.text = body, !.cached = task[p].entry.decodes /\ body # None])
    /\ UNCHANGED <<server, body, meta, served>>

Fresh(entry) == entry.expires > now

ServeFresh(p) ==
    /\ task[p].at = "cached" /\ task[p].cached /\ Fresh(task[p].entry)
    /\ Returns(p, task[p].text, "cache", None)
    /\ UNCHANGED <<server, body, meta>>

\* setRevalidationHeaders: only a cached response has validators to send.
Ask(p) ==
    /\ task[p].at = "cached" /\ ~(task[p].cached /\ Fresh(task[p].entry))
    /\ Goes(p, [task[p] EXCEPT !.at = "asked", !.deadline = now + Timeout,
                               !.tag = IF task[p].cached THEN task[p].entry.tag ELSE None])
    /\ UNCHANGED <<server, body, meta, served>>

\* The server: 304 when the validator names what it has, 200 with the text
\* otherwise.  An answer may or may not repeat the validators.
Answered(t, policy, tagged) ==
    [t EXCEPT !.at = "answered", !.policy = policy, !.answer = current,
              !.code = IF t.tag = current THEN 304 ELSE 200,
              !.tag = IF tagged THEN current ELSE None]

Answer(p) ==
    \E policy \in Policies, tagged \in BOOLEAN :
        /\ task[p].at = "asked"
        /\ Goes(p, Answered(task[p], policy, tagged))
        /\ UNCHANGED <<server, body, meta, served>>

\* do: the transport fails, or the server answers an error.
Fail(p) ==
    /\ task[p].at = "asked"
    /\ Goes(p, Idle)
    /\ UNCHANGED <<server, body, meta, served>>

Received(p) == IF task[p].code = 304 /\ task[p].cached THEN task[p].text ELSE task[p].answer
By(p)       == IF task[p].code = 304 THEN "revalidation" ELSE "server"
Done(p)     == Returns(p, Received(p), By(p), task[p].answer)

\* noStore: the answer is returned and what is cached stays as it is.
NotStored(p) ==
    /\ task[p].at = "answered" /\ ~task[p].policy.store
    /\ Done(p)
    /\ UNCHANGED <<server, body, meta>>

\* writeCache: the metadata is dated before anything is written.
Date(p) ==
    /\ task[p].at = "answered" /\ task[p].policy.store
    /\ Goes(p, [task[p] EXCEPT !.at = "dated", !.stored =
                    [tag |-> task[p].tag, expires |-> now + task[p].policy.age, decodes |-> TRUE]])
    /\ UNCHANGED <<server, body, meta, served>>

WriteBody(p) ==
    /\ task[p].at = "dated"
    /\ body' = Received(p)
    /\ Goes(p, [task[p] EXCEPT !.at = "written"])
    /\ UNCHANGED <<server, meta, served>>

WriteMeta(p) ==
    /\ task[p].at = "written"
    /\ meta' = task[p].stored
    /\ Done(p)
    /\ UNCHANGED <<server, body>>

\* As BodyFails, going on to write the metadata.
BodyFailsCarryOn(p) ==
    /\ task[p].at = "dated"
    /\ Goes(p, [task[p] EXCEPT !.at = "written"])
    /\ UNCHANGED <<server, body, meta, served>>

\* A write that fails is not reported: the text is returned all the same.  A
\* metadata file it has cut short does not decode, a body is not looked at.
BodyFails(p) ==
    /\ task[p].at = "dated"
    /\ body' \in {body} \union (IF Truncates THEN {Torn} ELSE {})
    /\ Done(p)
    /\ UNCHANGED <<server, meta>>

MetaFails(p) ==
    /\ task[p].at = "written"
    /\ meta' \in {meta, NoEntry}
    /\ Done(p)
    /\ UNCHANGED <<server, body>>

Step(p) == \/ ReadMeta(p) \/ ReadBody(p) \/ ServeFresh(p) \/ Ask(p) \/ Answer(p) \/ Fail(p) \/ NotStored(p)
           \/ Date(p) \/ WriteBody(p) \/ WriteMeta(p) \/ BodyFails(p) \/ MetaFails(p)
Next == Tick \/ Publish \/ \E p \in Processes : Step(p) \/ Crash(p)

Spec == Init /\ [][Next]_vars

-----------------------------------------------------------------------------
(* Properties. *)

(* What FetchText returns is never older than the longest lifetime an      *)
(* answer allows and one exchange: the server had that text within that    *)
(* time, whatever died in between (fetchHTTP, writeCache).  The order of   *)
(* the two writes makes it so: a new body under old metadata is asked for  *)
(* again, new metadata over an old body would be believed.                 *)
ServedWithinLifetime ==
    served.text \in Versions => served.at <= held[served.text] + Lifetime + Timeout

(* A 304 is about the text it makes the fetcher return: the validator sent *)
(* with the request and the body returned on the answer, read from two     *)
(* files, are of one version.                                              *)
NotModifiedIsWhatWeHold ==
    served.by = "revalidation" => served.text = served.about

(* What the cache hands out is what the server stands by, on its own word  *)
(* or on that of a 304, after any death between two writes and any write   *)
(* that failed as a whole; one that cuts a body short is not in Alone.      *)
CacheIsBelievable == ServedWithinLifetime /\ NotModifiedIsWhatWeHold
=============================================================================
