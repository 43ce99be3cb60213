------------------------------ MODULE Download ------------------------------
(***************************************************************************)
(* pipeline::download: one HTTP object to one destination path, through a  *)
(* `.partial` file that later attempts, and later runs, resume with        *)
(* Range + If-Range, and a `.partial.json` that says which URL and which   *)
(* validator the partial bytes belong to.                                  *)
(*                                                                         *)
(* Bytes are abstracted to blocks; a file is the number of blocks it has   *)
(* and the set of objects they came from.  An object is one generation of  *)
(* what a URL serves, and a server may publish the next one at any time.   *)
(***************************************************************************)
EXTENDS Integers, FiniteSets

CONSTANTS
  Url,            \* the candidate sources tried for one destination
  Validated,      \* the URLs whose server sends ETag or Last-Modified
  Blocks,         \* blocks in an object
  MaxAttempts,    \* RetryPolicy::max_attempts
  ReadTimeout,    \* does the client give up a stalled body?
  MaxGen, MaxCalls, MaxKills,
  None

Object == Url \X (0..MaxGen)
File == [len : 0..Blocks, from : SUBSET Object]
Metadata == [url : Url, validator : 0..MaxGen \cup {None}]
Response == [object : Object, append : BOOLEAN]

ASSUME ConstantsAssumption ==
  /\ Validated \subseteq Url
  /\ Blocks \in Nat \ {0} /\ MaxAttempts \in Nat \ {0}
  /\ ReadTimeout \in BOOLEAN
  /\ MaxGen \in Nat /\ MaxCalls \in Nat /\ MaxKills \in Nat
  /\ None \notin Nat \cup File \cup Metadata \cup Response \cup Object

VARIABLES
  dest,      \* the destination file, or None
  partial,   \* the .partial file, or None
  meta,      \* .partial.json: the URL and the validator, or None
  served,    \* served[u]: the generation the server of u publishes
  pc,        \* the next step of the download
  url,       \* the URL being downloaded
  attempt,   \* the attempt under way
  offset,    \* resume_from
  body,      \* the response: its object and whether it is appended; or None
  stalled,   \* the server sends nothing more of this body
  calls, kills,
  spoilt     \* history: the files that may hold bytes other metadata describes

disk == <<dest, partial, meta>>
vars == <<dest, partial, meta, served, pc, url, attempt, offset, body, stalled, calls, kills, spoilt>>

Steps == {"idle", "inspect", "send", "resend", "describe", "open", "body", "rename", "tidy"}

TypeOK ==
  /\ dest \in File \cup {None} /\ partial \in File \cup {None}
  /\ meta \in Metadata \cup {None}
  /\ served \in [Url -> 0..MaxGen]
  /\ pc \in Steps /\ url \in Url
  /\ attempt \in 0..MaxAttempts /\ offset \in 0..Blocks
  /\ body \in Response \cup {None}
  /\ stalled \in BOOLEAN
  /\ calls \in 0..MaxCalls /\ kills \in 0..MaxKills
  /\ spoilt \in SUBSET {"partial", "dest"}

Init ==
  /\ dest = None /\ partial = None /\ meta = None
  /\ served = [u \in Url |-> 0]
  /\ pc = "idle" /\ url \in Url
  /\ attempt = 0 /\ offset = 0 /\ body = None /\ stalled = FALSE
  /\ calls = 0 /\ kills = 0 /\ spoilt = {}

-----------------------------------------------------------------------------
(* Helpers *)

Length(f) == IF f = None THEN 0 ELSE f.len

\* Mutant: the partial of any mirror will do.
ValidatorOfAnyUrl == IF meta = None THEN None ELSE meta.validator

\* The validator of the recorded partial, if it belongs to this URL.
Validator == IF meta = None THEN None
             ELSE IF meta.url = url THEN meta.validator ELSE None

\* The bytes of the partial are gone.
Replaced == spoilt' = spoilt \ {"partial"}

Goto(from, to) == pc = from /\ pc' = to

Return ==
  /\ pc' = "idle" /\ attempt' = 0 /\ offset' = 0 /\ body' = None /\ stalled' = FALSE

\* Mutant: attempts are not counted.
RetryUncounted ==
  /\ pc' = "inspect" /\ offset' = 0 /\ body' = None /\ stalled' = FALSE /\ UNCHANGED attempt

\* A transient error is tried again, after a delay, while attempts remain.
RetryOrReturn ==
  IF attempt < MaxAttempts
    THEN /\ pc' = "inspect" /\ attempt' = attempt + 1
         /\ offset' = 0 /\ body' = None /\ stalled' = FALSE
    ELSE Return

-----------------------------------------------------------------------------
(* download_with_headers_and_policy *)

\* A destination that exists is the answer; nothing is requested.
Call(u) ==
  /\ dest = None /\ calls < MaxCalls /\ calls' = calls + 1
  /\ Goto("idle", "inspect") /\ url' = u /\ attempt' = 1
  /\ UNCHANGED <<disk, served, offset, body, stalled, kills, spoilt>>

(* download_once *)

\* Partial bytes with no validator for this URL are thrown away.
Inspect ==
  /\ Goto("inspect", "send")
  /\ IF Length(partial) > 0 /\ Validator # None
       THEN offset' = Length(partial) /\ UNCHANGED <<partial, meta, spoilt>>
       ELSE /\ offset' = 0 /\ meta' = None /\ Replaced
            /\ partial' = IF Length(partial) > 0 THEN None ELSE partial
  /\ UNCHANGED <<dest, served, url, attempt, body, stalled, calls, kills>>

Answer(append) == body' = [object |-> <<url, served[url]>>, append |-> append]

\* 200: the server ignored the range, or has another object, or was asked for all.
AnswerWhole ==
  /\ pc \in {"send", "resend"} /\ pc' = "describe" /\ Answer(FALSE)
  /\ UNCHANGED <<disk, served, url, attempt, offset, stalled, calls, kills, spoilt>>

\* 206 at the offset asked for: If-Range matched the validator.
AnswerRange ==
  /\ Goto("send", "describe") /\ Answer(TRUE)
  /\ offset > 0 /\ offset < Blocks /\ Validator = served[url]
  /\ UNCHANGED <<disk, served, url, attempt, offset, stalled, calls, kills, spoilt>>

\* 416, or 206 at some other offset: drop the partial, ask for the whole object.
AnswerUnusable ==
  /\ offset > 0 /\ Goto("send", "resend")
  /\ partial' = None /\ meta' = None /\ Replaced
  /\ UNCHANGED <<dest, served, url, attempt, offset, body, stalled, calls, kills>>

\* No connection, a timeout, an overloaded server.
RequestFails ==
  /\ pc \in {"send", "resend"} /\ RetryOrReturn
  /\ UNCHANGED <<disk, served, url, calls, kills, spoilt>>

\* Any other status, or no space for the announced length: not retried.
Refuse ==
  /\ pc \in {"send", "resend", "describe"} /\ Return
  /\ UNCHANGED <<disk, served, url, calls, kills, spoilt>>

\* The metadata of the new response replaces the old before the partial is opened.
Describe ==
  /\ Goto("describe", "open")
  /\ meta' = [url |-> url,
              validator |-> IF url \in Validated THEN body.object[2] ELSE None]
  /\ UNCHANGED <<dest, partial, served, url, attempt, offset, body, stalled, calls, kills, spoilt>>

\* Mutant: never truncated.
OpenAppending ==
  /\ Goto("open", "body")
  /\ partial' = IF partial # None THEN partial ELSE [len |-> 0, from |-> {}]
  /\ UNCHANGED <<dest, meta, served, url, attempt, offset, body, stalled, calls, kills, spoilt>>

\* Opened for append, or truncated.
Open ==
  /\ Goto("open", "body")
  /\ IF body.append /\ partial # None
       THEN UNCHANGED <<partial, spoilt>>
       ELSE partial' = [len |-> 0, from |-> {}] /\ Replaced
  /\ UNCHANGED <<dest, meta, served, url, attempt, offset, body, stalled, calls, kills>>

Chunk ==
  /\ pc = "body" /\ ~stalled /\ partial.len < Blocks
  /\ partial' = [len |-> partial.len + 1, from |-> partial.from \cup {body.object}]
  /\ UNCHANGED <<dest, meta, served, pc, url, attempt, offset, body, stalled, calls, kills, spoilt>>

\* The connection breaks, or the read timeout finds it silent.
Interrupt ==
  /\ pc = "body" /\ (stalled => ReadTimeout) /\ RetryOrReturn
  /\ UNCHANGED <<disk, served, url, calls, kills, spoilt>>

EndOfBody ==
  /\ Goto("body", "rename") /\ ~stalled /\ partial.len = Blocks
  /\ UNCHANGED <<disk, served, url, attempt, offset, body, stalled, calls, kills, spoilt>>

Rename ==
  /\ Goto("rename", "tidy")
  /\ dest' = partial /\ partial' = None
  /\ spoilt' = IF "partial" \in spoilt THEN {"dest"} ELSE {}
  /\ UNCHANGED <<meta, served, url, attempt, offset, body, stalled, calls, kills>>

RemoveMetadata ==
  /\ pc = "tidy" /\ meta' = None /\ Return
  /\ UNCHANGED <<dest, partial, served, url, calls, kills, spoilt>>

-----------------------------------------------------------------------------
(* The environment *)

\* The caller rejects the file and discards it (discard_cached_artifact).
Discard ==
  /\ pc = "idle" /\ dest # None /\ dest' = None /\ spoilt' = spoilt \ {"dest"}
  /\ UNCHANGED <<partial, meta, served, pc, url, attempt, offset, body, stalled, calls, kills>>

\* A server publishes another object under the same URL.
Publish(u) ==
  /\ served[u] < MaxGen /\ served' = [served EXCEPT ![u] = @ + 1]
  /\ UNCHANGED <<disk, pc, url, attempt, offset, body, stalled, calls, kills, spoilt>>

Stall ==
  /\ pc = "body" /\ ~stalled /\ stalled' = TRUE
  /\ UNCHANGED <<disk, served, pc, url, attempt, offset, body, calls, kills, spoilt>>

\* Metadata is that of the new response, the bytes are still those of another.
Mislabelled == pc = "open" /\ Length(partial) > 0 /\ partial.from # {body.object}

\* The process is killed, or an I/O error ends the call, at any step.  Metadata
\* whose write was cut short does not parse and counts as none.
Kill ==
  /\ pc # "idle" /\ kills < MaxKills /\ kills' = kills + 1 /\ Return
  /\ meta' = meta \/ (pc = "describe" /\ meta' = None)
  /\ spoilt' = IF Mislabelled THEN spoilt \cup {"partial"} ELSE spoilt
  /\ UNCHANGED <<dest, partial, served, url, calls>>

-----------------------------------------------------------------------------
Step ==
  \/ Inspect \/ AnswerWhole \/ AnswerRange \/ AnswerUnusable \/ RequestFails \/ Refuse
  \/ Describe \/ Open \/ Chunk \/ Interrupt \/ EndOfBody \/ Rename \/ RemoveMetadata

Next ==
  \/ Step \/ Discard \/ Stall \/ Kill
  \/ \E u \in Url : Call(u) \/ Publish(u)

Spec == Init /\ [][Next]_vars

\* The download's task is polled; a request is answered or fails (connect
\* timeout), a body that still flows goes on, a silent one is timed out.
FairSpec == Spec /\ WF_vars(Step)

-----------------------------------------------------------------------------
(* Properties *)

IsWhole(f) == \E o \in Object : f.len = Blocks /\ f.from = {o}

\* A retry resumes with a validator or starts again: no file is delivered that
\* mixes two objects (of one URL over time, or of two mirrors), or that lacks a
\* part, however often attempts failed or were killed; unless it continues bytes
\* that a run left behind by ending after it had recorded the metadata of another
\* response and before it had truncated them.
DeliveredWhole == dest # None /\ "dest" \notin spoilt => IsWhole(dest)

\* "Servers that ignore ranges or changed the object cause a safe restart", after a
\* kill at any step as well: no exception for the bytes that a run left mislabelled.
RestartIsSafe == dest # None => IsWhole(dest)

\* The recorded validator describes the bytes that the next attempt would keep.
PartialDescribed ==
  pc # "open" /\ meta # None /\ Length(partial) > 0 /\ "partial" \notin spoilt =>
    (meta.validator # None => partial.from = {<<meta.url, meta.validator>>})

\* A call ends, with the file or an error, if the client has a read timeout.
CallEnds == pc # "idle" ~> pc = "idle"

\* The destination only ever takes the values of the abstract file, in its steps:
\* the object it holds whole, and no object at all if it were not one.  A file made
\* from mislabelled bytes is not counted as delivered.
OneOf(o) == dest.len = Blocks /\ dest.from = {o}
Delivered == IF dest = None \/ "dest" \in spoilt THEN None
             ELSE IF \E o \in Object : OneOf(o) THEN CHOOSE o \in Object : OneOf(o)
             ELSE <<>>

Whole == INSTANCE WholeFile WITH file <- Delivered

ImplementsWholeFile == Whole!Spec

-----------------------------------------------------------------------------
(* The inductive invariant behind DeliveredWhole *)

\* A response belongs to the URL asked for; what it is appended to is a part of
\* the object it continues, and so is all that is written while it is read.
ResponseFits ==
  /\ pc \in {"describe", "open", "body", "rename", "tidy"} => body # None /\ body.object[1] = url
  /\ pc \in {"describe", "open"} /\ body.append =>
       partial # None /\ ("partial" \notin spoilt => partial.from = {body.object})
  /\ pc \in {"open", "body", "rename"} =>
       meta # None /\ meta.url = url /\ meta.validator \in {None, body.object[2]}
  /\ pc \in {"body", "rename"} =>
       partial # None /\ ("partial" \notin spoilt => partial.from \subseteq {body.object})
  /\ pc = "rename" => partial.len = Blocks

\* A file has blocks exactly when they come from somewhere.
SomeSource == partial # None => (partial.len = 0 <=> partial.from = {})

\* While bytes are kept to be resumed, they are those the request is made for.
RequestFits == pc = "send" /\ offset > 0 => Length(partial) = offset /\ Validator # None

\* A download under way has not delivered yet.
NothingYet == pc \notin {"idle", "tidy"} => dest = None

IInv ==
  /\ TypeOK /\ NothingYet /\ PartialDescribed /\ ResponseFits /\ SomeSource /\ RequestFits
  /\ DeliveredWhole

=============================================================================
