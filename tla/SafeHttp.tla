------------------------------- MODULE SafeHttp -------------------------------
(* One call of safe_http.request (apps/core/safe_http.py), the only way the    *)
(* program sends HTTP to a URL that a user or a site chose: resolve the host,  *)
(* check every address, connect to the checked one, follow redirects by hand   *)
(* and read the body up to a cap, all under one deadline.                      *)
(*                                                                             *)
(* The DNS, the sites and the clock are the environment: an answer is any set  *)
(* of addresses, a site answers what it likes, as slowly and for as long as    *)
(* the timeouts of httpx let it. Those are per socket operation: connect, the  *)
(* TLS handshake and each read of the headers may each take what remained of   *)
(* the deadline when the hop began.                                            *)
EXTENDS Integers, Sequences, SequencesExt

CONSTANTS
    Nothing,        \* no value yet (None)
    Malformed,      \* a Location header that urljoin refuses
    Urls,           \* URLs a caller or a Location header can name
    Sound,          \* those with an allowed scheme and port, a host, no credentials
    PlainHttp,      \* those that begin with http:
    AllowHttp,      \* the allow_http argument (settings.ALLOW_PLAIN_HTTP)
    Addrs,          \* IP addresses
    Global,         \* those Python's is_global (and not is_multicast) accepts
    NeverPublic,    \* _NEVER_PUBLIC_V4 and _NEVER_PUBLIC_V6
    Embeds,         \* IPv6 address -> the IPv4 address its packets end up at
    Timeout,        \* the timeout argument
    DnsLimit,       \* longest getaddrinfo (the resolver's own limit)
    Waits,          \* socket operations before the headers are complete
    MaxRedirects,   \* the max_redirects argument
    MaxBytes,       \* the max_bytes argument
    RawSlack,       \* RAW_SLACK_BYTES
    Lengths,        \* Content-Length values
    MaxChunk        \* largest chunk of iter_raw, and what it may decode to

ASSUME SafeHttpAssumption ==
    /\ Nothing \notin Urls \cup Addrs /\ Malformed \notin Urls \cup {Nothing}
    /\ Sound \subseteq Urls /\ PlainHttp \subseteq Urls /\ AllowHttp \in BOOLEAN
    /\ Global \subseteq Addrs /\ NeverPublic \subseteq Addrs
    /\ \E D \in SUBSET Addrs : Embeds \in [D -> Addrs \ D]
    /\ {Timeout, Waits, MaxChunk} \subseteq Nat \ {0}
    /\ Lengths \subseteq Nat
    /\ {DnsLimit, MaxRedirects, MaxBytes, RawSlack} \subseteq Nat

VARIABLES
    pc,         \* "resolve", "send", "body", "done"
    call,       \* the arguments truncate and discard_body
    url, method, content, permanent,    \* the locals of request
    addr,       \* target.address
    clock,      \* time since the call began; the deadline is Timeout
    remaining,  \* what was left of it when the hop began
    wire,       \* the last request put on the wire, after which redirects, or Nothing
    trail,      \* the redirects followed so far: their status codes
    resp,       \* the headers of the body being read, or Nothing
    body,       \* the locals of _read_body; got: all that arrived, decoded;
                \* after: what of it followed the end of the compressed stream
    result      \* what the caller gets: a response or an error, or Nothing

vars == <<pc, call, url, method, content, permanent, addr, clock, remaining,
          wire, trail, resp, body, result>>
hopVars == <<call, url, method, content, permanent, trail>>

NoLength == -1
REDIRECT_CODES == {301, 302, 303, 307, 308}
PERMANENT_REDIRECT_CODES == {301, 308}
RawLimit == MaxBytes + RawSlack
Least(a, b) == IF a < b THEN a ELSE b

(* A response: its status, Location, Content-Encoding and Content-Length. *)
Responses == [code : {200, 500} \cup REDIRECT_CODES, location : Urls \cup {Nothing, Malformed},
              encoding : {"identity", "compressed", "unknown"},
              declared : {NoLength} \cup Lengths]

EmptyBody == [buf |-> 0, raw |-> 0, got |-> 0, after |-> 0, eof |-> FALSE]

(* Feeds and robots.txt are fetched with GET, webhooks POST a payload (today   *)
(* with max_redirects=0; the function is modelled for any value).              *)
Init ==
    /\ pc = "resolve" /\ clock = 0 /\ remaining = Timeout
    /\ call \in [truncate : BOOLEAN, discard : BOOLEAN]
    /\ url \in Urls /\ method \in {"GET", "POST"} /\ content = (method = "POST")
    /\ permanent = TRUE /\ addr = Nothing /\ wire = Nothing /\ trail = << >>
    /\ resp = Nothing /\ body = EmptyBody /\ result = Nothing

-----------------------------------------------------------------------------
(* How a call ends. *)
Raise(error) ==
    /\ pc' = "done" /\ result' = [error |-> error]

Return(size, truncated) ==
    /\ pc' = "done"
    /\ result' = [error |-> "none", size |-> size, truncated |-> truncated,
                  url |-> url,
                  permanent_url |-> IF permanent /\ trail # << >> THEN url ELSE Nothing]

-----------------------------------------------------------------------------
(* _is_public; the recursion into the embedded address is one level deep.      *)
IsPublic(a) ==
    /\ a \notin NeverPublic
    /\ LET end == IF a \in DOMAIN Embeds THEN Embeds[a] ELSE a
       IN  end \notin NeverPublic /\ end \in Global

(* resolve: the static checks, then one DNS answer, all of it public. *)
Allowed(u) == u \in Sound /\ (u \in PlainHttp => AllowHttp)

(* A plausible bug: every hop is given the whole timeout again. *)
Resolve_DeadlinePerHop ==
    /\ pc = "resolve" /\ Allowed(url)
    /\ \E d \in 0 .. DnsLimit : clock' = clock + d
    /\ remaining' = Timeout
    /\ addr' \in {a \in Addrs : IsPublic(a)}
    /\ pc' = "send"
    /\ UNCHANGED <<hopVars, wire, resp, body, result>>

Resolve ==
    /\ pc = "resolve"
    /\ \E answer \in SUBSET Addrs, d \in 0 .. DnsLimit :
         /\ ~Allowed(url) => d = 0
         /\ clock' = clock + d
         /\ remaining' = Timeout - clock'
         /\ \/ /\ ~Allowed(url) \/ answer = {} \/ \E a \in answer : ~IsPublic(a)
               /\ Raise("unsafe") /\ addr' = addr
            \/ /\ Allowed(url) /\ \A a \in answer : IsPublic(a)
               /\ addr' \in answer
               /\ IF remaining' <= 0 THEN Raise("deadline")
                                     ELSE pc' = "send" /\ UNCHANGED result
    /\ UNCHANGED <<hopVars, wire, resp, body>>

-----------------------------------------------------------------------------
(* The answer to a request: a redirect that is followed, or the response.      *)
IsRedirect(r) ==
    /\ r.code \in REDIRECT_CODES /\ r.location # Nothing
    /\ Len(trail) < MaxRedirects

DropsContent_OnlySeeOther(code) == code = 303
DropsContent(code) == code = 303 \/ (code \in {301, 302} /\ method = "POST")

StillPermanent_LastOnly(code) == code \in PERMANENT_REDIRECT_CODES
StillPermanent(code) == permanent /\ code \in PERMANENT_REDIRECT_CODES

Redirect(r) ==
    /\ IsRedirect(r) /\ r.location # Malformed
    /\ permanent' = StillPermanent(r.code)
    /\ url' = r.location
    /\ IF DropsContent(r.code) THEN method' = "GET" /\ content' = FALSE
                               ELSE UNCHANGED <<method, content>>
    /\ trail' = Append(trail, r.code)
    /\ pc' = "resolve"
    /\ UNCHANGED <<call, resp, body, result>>

(* urljoin raises ValueError, which nothing in request catches. *)
BadLocation(r) ==
    /\ IsRedirect(r) /\ r.location = Malformed
    /\ Raise("value_error") /\ UNCHANGED <<hopVars, resp, body>>

TooLarge(r) == r.declared > MaxBytes /\ ~call.truncate

Final(r) ==
    /\ ~IsRedirect(r)
    /\ IF call.discard THEN Return(0, FALSE) /\ UNCHANGED resp
       ELSE IF TooLarge(r) THEN Raise("too_large") /\ UNCHANGED resp
       ELSE pc' = "body" /\ resp' = [encoding |-> r.encoding, declared |-> r.declared] /\ UNCHANGED result
    /\ UNCHANGED <<hopVars, body>>

(* The request goes to the pinned address; a transport error ends the call.    *)
Pinned_LookedUpAgain == Addrs
Pinned == {addr}

Send ==
    /\ pc = "send"
    /\ \E a \in Pinned :
         wire' = [addr |-> a, method |-> method, content |-> content, after |-> trail]
    /\ \E d \in 0 .. Waits * remaining : clock' = clock + d
    /\ \/ \E r \in Responses : Redirect(r) \/ BadLocation(r) \/ Final(r)
       \/ Raise("transport") /\ UNCHANGED <<hopVars, resp, body>>
    /\ addr' = Nothing /\ UNCHANGED remaining

-----------------------------------------------------------------------------
(* The end of _read_body: the loop is left, the size is judged.                *)
Oversize(b) == b.buf > MaxBytes \/ b.raw > RawLimit

Finish(b) ==
    IF ~Oversize(b) THEN Return(b.buf, FALSE)
    ELSE IF call.truncate THEN Return(Least(b.buf, MaxBytes), TRUE)
    ELSE Raise("too_large")

(* Past the raw limit only its parity is kept: a stream that is read without   *)
(* end is a cycle of the model.                                                *)
CountedTo(raw) == IF raw <= RawLimit THEN raw
                  ELSE RawLimit + 1 + ((raw - RawLimit - 1) % 2)

(* What a chunk of raw bytes, n decoded, adds: the decoder stops one byte past *)
(* the cap, and reaches eof only when all of its output was taken. What the    *)
(* site sent after the end of the stream is ignored.                           *)
DecodeLimit_AtCap == MaxBytes
DecodeLimit == MaxBytes + 1

Taken(raw, n, last, after) ==
    LET compressed == resp.encoding = "compressed"
        buf == IF compressed THEN Least(DecodeLimit, body.buf + n) ELSE body.buf + n
    IN  [buf |-> buf, raw |-> CountedTo(body.raw + raw),
         got |-> body.got + n + after, after |-> after,
         eof |-> compressed /\ last /\ buf = body.buf + n]

(* The loop is left when the compressed stream ends or a limit is passed. *)
Enough_OutputOnly(b) == b.eof \/ b.buf > MaxBytes
Enough(b) == b.eof \/ Oversize(b)

(* One chunk of iter_raw. *)
Chunk ==
    /\ pc = "body"
    /\ \E d \in 0 .. remaining : clock' = clock + d
    /\ \E raw \in 1 .. MaxChunk, n \in 0 .. MaxChunk, last \in BOOLEAN,
          after \in 0 .. MaxChunk :
         /\ resp.encoding = "identity" => n = raw
         /\ resp.declared # NoLength => body.raw + raw <= resp.declared
         /\ LET b == Taken(raw, n, last, after)
            IN  /\ after > 0 => b.eof
                /\ \/ /\ clock' > Timeout
                      /\ Raise("deadline") /\ body' = body
                   \/ /\ clock' <= Timeout /\ resp.encoding = "unknown"
                      /\ Raise("transport") /\ body' = body
                   \/ /\ clock' <= Timeout /\ resp.encoding # "unknown"
                      /\ body' = b
                      /\ IF Enough(b) THEN Finish(b) ELSE UNCHANGED <<pc, result>>
    /\ UNCHANGED <<hopVars, addr, remaining, wire, resp>>

(* The stream ends. httpx notices a body shorter than its Content-Length, but  *)
(* not the early end of one without it; a decoder that has not met the end of  *)
(* its stream is flushed and what it gave counts as the body.                  *)
EndOfStream ==
    /\ pc = "body"
    /\ resp.declared \in {NoLength, body.raw}
    /\ \E d \in 0 .. remaining : clock' = clock + d
    /\ Finish(body)
    /\ UNCHANGED <<hopVars, addr, remaining, wire, resp, body>>

(* A read timeout, a broken connection, or data that zlib refuses. *)
BodyError ==
    /\ pc = "body"
    /\ \E d \in 0 .. remaining : clock' = clock + d
    /\ Raise("transport")
    /\ UNCHANGED <<hopVars, addr, remaining, wire, resp, body>>

Next == Resolve \/ Send \/ Chunk \/ EndOfStream \/ BodyError

(* A call is one thread of a worker: it goes on as long as its waits end, and  *)
(* the resolver's and httpx's timeouts end them.                               *)
Spec == Init /\ [][Next]_vars /\ WF_vars(Next)

-----------------------------------------------------------------------------
(* The types of the variables. *)
TypeOK ==
    /\ pc \in {"resolve", "send", "body", "done"}
    /\ url \in Urls /\ method \in {"GET", "POST"}
    /\ content \in BOOLEAN /\ permanent \in BOOLEAN
    /\ addr \in Addrs \cup {Nothing} /\ clock \in Nat /\ remaining <= Timeout
    /\ trail \in Seq(REDIRECT_CODES) /\ Len(trail) <= MaxRedirects
    /\ resp # Nothing => resp.encoding \in {"identity", "compressed", "unknown"}
    /\ body.buf \in 0 .. MaxBytes + MaxChunk

(* resolve, pinned_url: whatever the DNS answers between the hops, and however *)
(* far redirects lead, no request goes to an address that is not public or     *)
(* whose packets end up at one that is not.                                    *)
OnlyPublic ==
    wire # Nothing =>
        LET end == IF wire.addr \in DOMAIN Embeds THEN Embeds[wire.addr] ELSE wire.addr
        IN  {wire.addr, end} \cap NeverPublic = {} /\ end \in Global

(* Response.permanent_url: the caller (the feed fetcher, which stores it as    *)
(* the feed's new URL) is told of a permanent move exactly when there was a    *)
(* redirect and every redirect on the way was permanent.                       *)
PermanentIfAllAre ==
    (result # Nothing /\ result.error = "none") =>
        ((result.permanent_url # Nothing) <=>
            (trail # << >> /\ ToSet(trail) \subseteq PERMANENT_REDIRECT_CODES))

(* request: the payload of a POST is sent again only to hops reached by 307    *)
(* and 308, and once it was dropped no later redirect brings it back.          *)
ContentOnlyIfPreserved ==
    (wire # Nothing /\ wire.content) =>
        wire.method = "POST" /\ ToSet(wire.after) \subseteq {307, 308}

(* _read_body: a body that is returned without the mark truncated misses       *)
(* nothing of what the site sent, except data after the end of the first       *)
(* compressed stream, and then it is all of that stream; and no body is larger *)
(* than the cap, before or after decompression.                                *)
NothingCutSilently ==
    (result # Nothing /\ result.error = "none" /\ resp # Nothing) =>
        /\ result.size <= MaxBytes
        /\ ~result.truncated =>
              result.size = body.got - body.after /\ (body.after > 0 => body.eof)

(* request: the deadline is shared by the hops. It is not exact: the waits of  *)
(* one hop may each take all of what remained, and a last read or a last name  *)
(* lookup may follow; but no second hop does.                                  *)
DeadlineHolds == clock <= (Waits + 1) * Timeout + DnsLimit

(* What a call may still do: two steps for every redirect that is left, and a  *)
(* read for every byte below the raw limit.                                    *)
StepsLeft ==
    LET hops == 2 * (MaxRedirects - Len(trail))
    IN  CASE pc = "resolve" -> RawLimit + 3 + hops
          [] pc = "send"    -> RawLimit + 2 + hops
          [] pc = "body"    -> RawLimit + 1 - body.raw
          [] pc = "done"    -> 0

(* request, _read_body: however sites redirect, drip or inflate, every step    *)
(* of a call leaves it fewer steps, and never less than none: it makes at most *)
(* MaxRedirects + 1 requests and RawLimit + 1 reads.                           *)
StepsRunOut == [][StepsLeft' \in 0 .. StepsLeft - 1]_vars

(* request: a call always ends, also when a site redirects in circles or never *)
(* stops sending.                                                              *)
Terminates == <>(pc = "done")
=============================================================================
