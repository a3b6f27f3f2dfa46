------------------------------- MODULE Fetch -------------------------------
(***************************************************************************)
(* fetch_https() of http.py under its FetchPolicy.                         *)
(*                                                                         *)
(* The call follows redirects itself, one request after the other on one   *)
(* client, and waits at three points: for the head of a response, for the  *)
(* next bytes of its body, and for the response and the client to close,   *)
(* but never while it decides.  The server answers as it likes.  The       *)
(* network may fail, the caller may cancel and the total deadline may fire *)
(* at each wait.  A URL is its origin, bytes are counted in units.         *)
(***************************************************************************)
EXTENDS Integers, Sequences, SequencesExt

CONSTANTS
    Origin,        \* origins a URL may name
    Permitted,     \* FetchPolicy.allowed_origins
    Nowhere,       \* stands for the target before a call
    MaxBytes,      \* FetchPolicy.max_response_bytes
    MaxRedirects,  \* FetchPolicy.max_redirects
    MaxChunk       \* bound: units of one chunk, and how far lengths exceed the cap

ASSUME PolicyAssumption ==
    /\ Permitted \subseteq Origin /\ Permitted # {} /\ Nowhere \notin Origin
    /\ MaxBytes \in Nat \ {0} /\ MaxRedirects \in Nat
ASSUME ChunkAssumption == MaxChunk \in Nat \ {0}

\* Content-Length: absent, no unsigned integer, or a number
Absent == -1
NoInteger == -2
Length == {Absent, NoInteger} \cup 0..(MaxBytes + MaxChunk)

\* what a Location header holds: no URL at all, a URL that _url() refuses, or an origin
Location == {"missing", "unparsable", "improper"} \cup Origin

VARIABLES
    fetching,   \* what the call waits for
    target,     \* the local variable selected
    redirects,  \* the local variable redirects
    declared,   \* the local variable declared
    body,       \* len(body)
    overdue,    \* the total deadline has passed
    fetched,    \* how the call ended
    requests,   \* history: the origins that were sent a request
    sent        \* history: units of the last body that arrived

fetchVars == <<fetching, target, redirects, declared, body, overdue, fetched,
               requests, sent>>

Fetched == {"none", "response", "refused", "invalid", "network", "timeout", "cancelled"}

FetchInit ==
    /\ fetching = "idle" /\ target = Nowhere /\ redirects = <<>>
    /\ declared = Absent /\ body = 0 /\ overdue = FALSE /\ fetched = "none"
    /\ requests = <<>> /\ sent = 0

Waiting == fetching \in {"head", "body", "closing"}

-----------------------------------------------------------------------------
(* Requests and redirects *)

\* a response or an exception leaves the client, which closes first
FetchReturns(how) == fetching' = "closing" /\ fetched' = how

\* client.stream() of the next request
Requests(origin) ==
    fetching' = "head" /\ target' = origin /\ requests' = Append(requests, origin)

\* the first URL is validated ahead of the deadline and the client
CallFetch(url) ==
    /\ fetching = "idle"
    /\ UNCHANGED <<redirects, declared, body, overdue, sent>>
    /\ IF url \in Permitted
       THEN Requests(url) /\ UNCHANGED fetched
       ELSE /\ fetching' = "returned" /\ fetched' = "refused"
            /\ UNCHANGED <<target, requests>>

\* Mutant: a redirect is followed when it names any origin
RedirectAnywhere(location) ==
    /\ fetching = "head"
    /\ UNCHANGED <<declared, body, overdue, sent>>
    /\ IF Len(redirects) < MaxRedirects /\ location \in Origin
       THEN /\ Requests(location)
            /\ redirects' = Append(redirects, location)
            /\ UNCHANGED fetched
       ELSE FetchReturns("refused") /\ UNCHANGED <<target, redirects, requests>>

\* a redirect: its number, its Location and its origin are checked before the next
\* request, and its body is never read; join() may raise by itself.  The wait for it to
\* close is one with the wait for the head of the next.
Redirect(location) ==
    /\ fetching = "head"
    /\ UNCHANGED <<declared, body, overdue, sent>>
    /\ IF Len(redirects) < MaxRedirects /\ location \in Permitted
       THEN /\ Requests(location)
            /\ redirects' = Append(redirects, location)
            /\ UNCHANGED fetched
       ELSE /\ FetchReturns(IF Len(redirects) < MaxRedirects /\ location = "unparsable"
                            THEN "invalid" ELSE "refused")
            /\ UNCHANGED <<target, redirects, requests>>

-----------------------------------------------------------------------------
(* The body *)

\* any other response: encoded bodies and lengths beyond the cap are refused unread
ResponseHead(identity, length) ==
    /\ fetching = "head"
    /\ UNCHANGED <<target, redirects, body, overdue, requests, sent>>
    /\ IF identity /\ length \in {Absent} \cup 0..MaxBytes
       THEN fetching' = "body" /\ declared' = length /\ UNCHANGED fetched
       ELSE FetchReturns("refused") /\ UNCHANGED declared

\* Mutant: the cap is compared before the chunk is added
ChunkUnchecked(n) ==
    /\ fetching = "body" /\ sent' = sent + n
    /\ UNCHANGED <<target, redirects, declared, overdue, requests>>
    /\ IF body > MaxBytes THEN FetchReturns("refused") /\ UNCHANGED body
       ELSE body' = body + n /\ UNCHANGED <<fetching, fetched>>

\* a chunk beyond the cap is refused as a whole
Chunk(n) ==
    /\ fetching = "body" /\ sent' = sent + n
    /\ UNCHANGED <<target, redirects, declared, overdue, requests>>
    /\ IF body + n > MaxBytes THEN FetchReturns("refused") /\ UNCHANGED body
       ELSE body' = body + n /\ UNCHANGED <<fetching, fetched>>

\* the body ends: with the length it declared, or it is no answer
BodyEnds ==
    /\ fetching = "body"
    /\ FetchReturns(IF declared \in {Absent, body} THEN "response" ELSE "refused")
    /\ UNCHANGED <<target, redirects, declared, body, overdue, requests, sent>>

-----------------------------------------------------------------------------
(* What ends a wait *)

Leaves(how) ==
    /\ Waiting /\ FetchReturns(how)
    /\ UNCHANGED <<target, redirects, declared, body, overdue, requests, sent>>

\* asyncio.timeout() around all of it, once, and not over the caller's own cancellation;
\* a response or a refusal is lost when it fires while they close
Expires == overdue /\ fetched \notin {"timeout", "cancelled"} /\ Leaves("timeout")

Breaks == Leaves("network") \/ Leaves("cancelled")

\* the response and the client are closed, and the call ends
FetchCloses ==
    /\ fetching = "closing"
    /\ fetching' = "returned"
    /\ UNCHANGED <<target, redirects, declared, body, overdue, fetched, requests, sent>>

DeadlinePasses ==
    /\ Waiting /\ ~overdue /\ overdue' = TRUE
    /\ UNCHANGED <<fetching, target, redirects, declared, body, fetched, requests, sent>>

TakeResponse ==
    /\ fetching = "returned"
    /\ fetching' = "idle" /\ target' = Nowhere /\ redirects' = <<>>
    /\ declared' = Absent /\ body' = 0 /\ overdue' = FALSE /\ fetched' = "none"
    /\ requests' = <<>> /\ sent' = 0

FetchNext ==
    \/ \E url \in Origin : CallFetch(url)
    \/ \E location \in Location : Redirect(location)
    \/ \E identity \in BOOLEAN, length \in Length : ResponseHead(identity, length)
    \/ \E n \in 1..MaxChunk : Chunk(n)
    \/ BodyEnds \/ Expires \/ Breaks \/ FetchCloses \/ DeadlinePasses \/ TakeResponse

FetchSpec == FetchInit /\ [][FetchNext]_fetchVars

\* time passes, the event loop delivers the deadline, the caller takes what it asked for;
\* the server owes nothing, and a connection is closed without its answer
FetchFairness ==
    /\ WF_fetchVars(DeadlinePasses) /\ WF_fetchVars(Expires)
    /\ WF_fetchVars(FetchCloses) /\ WF_fetchVars(TakeResponse)

FairFetchSpec == FetchSpec /\ FetchFairness

-----------------------------------------------------------------------------
(* Properties *)

FetchTypeOK ==
    /\ fetching \in {"idle", "head", "body", "closing", "returned"}
    /\ target \in Origin \cup {Nowhere} /\ redirects \in Seq(Origin) /\ requests \in Seq(Origin)
    /\ declared \in Length
    /\ body \in Nat /\ sent \in Nat /\ overdue \in BOOLEAN /\ fetched \in Fetched

\* Whatever chain of redirects the server builds, only permitted origins are contacted,
\* and no more often than the policy says.
OnlyPermittedContacted ==
    /\ ToSet(requests) \subseteq Permitted
    /\ Len(requests) <= MaxRedirects + 1

\* A FetchResponse holds every byte that arrived and no more than the policy allows, and
\* names the requests that led to it, in their order.
ResponseIsWhole ==
    fetched = "response" =>
       /\ body = sent /\ body <= MaxBytes /\ declared \in {Absent, sent}
       /\ redirects = Tail(requests) /\ target = Last(requests)

\* "FetchRefused identifies a request or response outside the supplied policy": no other
\* exception than those of the network, the deadline and the caller ends a call.
RefusalsIdentified == fetched # "invalid"

\* The deadline covers the redirects and the body: a server that stops answering, or
\* sends the body in ever smaller pieces, cannot hold the call.
FetchEnds == fetching # "idle" ~> fetching = "idle"
=============================================================================
