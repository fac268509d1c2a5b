---------------------------- MODULE SafeHttpProofs ----------------------------
(* Proofs about one call of safe_http.request, module SafeHttp, for any URLs,  *)
(* addresses, limits and timeouts.                                             *)
EXTENDS SafeHttp, TLAPS

Encodings == {"identity", "compressed", "unknown"}
Bodies == [buf : 0 .. MaxBytes + MaxChunk, raw : Nat, got : Nat, after : Nat, eof : BOOLEAN]

(* What the locals of request and of _read_body are at each point. *)
Phases ==
    /\ pc # "done" => result = Nothing
    /\ pc \in {"resolve", "send"} => resp = Nothing /\ body = EmptyBody
    /\ pc \in {"send", "body"} => remaining \in 1 .. Timeout
    /\ pc = "body" => resp \in [encoding : Encodings, declared : {NoLength} \cup Lengths]

(* While the body is read, all that arrived is in the buffer, within the cap. *)
AllBuffered ==
    pc = "body" => body.buf = body.got /\ body.after = 0 /\ body.buf <= MaxBytes

CallInv ==
    /\ TypeOK
    /\ call \in [truncate : BOOLEAN, discard : BOOLEAN]
    /\ remaining \in Int
    /\ body \in Bodies
    /\ Phases
    /\ AllBuffered

(* The first body. *)
LEMMA EmptyBodyType == EmptyBody \in Bodies
  BY SafeHttpAssumption DEF EmptyBody, Bodies

(* A chunk leaves a body; one within the cap holds all that arrived before the *)
(* end of the stream.                                                          *)
LEMMA TakenType ==
  ASSUME CallInv, pc = "body",
         NEW raw \in 1 .. MaxChunk, NEW n \in 0 .. MaxChunk, NEW last \in BOOLEAN,
         NEW after \in 0 .. MaxChunk
  PROVE  LET b == Taken(raw, n, last, after)
         IN  /\ b \in Bodies /\ b.after = after
             /\ b.buf <= MaxBytes => b.buf = b.got - after
<1> DEFINE b == Taken(raw, n, last, after)
<1> USE SafeHttpAssumption
<1>1. /\ body.buf \in Nat /\ body.buf <= MaxBytes /\ body.got = body.buf
      /\ body.raw \in Nat
      /\ MaxBytes \in Nat /\ MaxChunk \in Nat \ {0} /\ RawLimit \in Nat
  BY DEF CallInv, AllBuffered, Bodies, RawLimit
<1>2. CountedTo(body.raw + raw) \in Nat
  <2>1. body.raw + raw \in Nat
    BY <1>1
  <2>2. ASSUME NEW m \in Nat, m > RawLimit PROVE RawLimit + 1 + ((m - RawLimit - 1) % 2) \in Nat
    BY <1>1, <2>2
  <2> QED
    BY <1>1, <2>1, <2>2 DEF CountedTo
<1>3. /\ b.buf \in 0 .. MaxBytes + MaxChunk
      /\ b.buf <= MaxBytes => b.buf = body.buf + n
  BY <1>1 DEF Taken, Least, DecodeLimit
<1>4. b.got \in Nat /\ b.got = body.buf + n + after /\ b.after = after
  BY <1>1 DEF Taken
<1>5. b.raw \in Nat /\ b.eof \in BOOLEAN
  BY <1>2 DEF Taken
<1>6. b = [buf |-> b.buf, raw |-> b.raw, got |-> b.got, after |-> b.after, eof |-> b.eof]
  BY DEF Taken
<1>7. b \in Bodies
  BY <1>3, <1>4, <1>5, <1>6 DEF Bodies
<1>8. n \in Nat /\ after \in Nat
  BY <1>1
<1> HIDE DEF b
<1>9. b.buf <= MaxBytes => b.buf = b.got - after
  BY <1>1, <1>3, <1>4, <1>8
<1> QED
  BY <1>4, <1>7, <1>9 DEF b

(* The ways a call ends. *)
LEMMA FinishEnds ==
  ASSUME NEW b, Finish(b)
  PROVE  pc' = "done"
  BY DEF Finish, Return, Raise

(* Every step of a call keeps the invariant. *)
LEMMA CallStep ==
  ASSUME CallInv, [Next]_vars
  PROVE  CallInv'
<1> USE SafeHttpAssumption
<1>1. CASE Resolve
  <2>1. PICK d \in 0 .. DnsLimit, answer \in SUBSET Addrs :
          /\ clock' = clock + d
          /\ remaining' = Timeout - clock'
          /\ \/ pc' = "done" /\ addr' \in {addr} \cup answer
             \/ remaining' > 0 /\ pc' = "send" /\ addr' \in answer /\ UNCHANGED result
    BY <1>1 DEF Resolve, Raise, CallInv, TypeOK
  <2>2. pc = "resolve" /\ UNCHANGED <<hopVars, wire, resp, body>>
    BY <1>1 DEF Resolve
  <2>3. clock' \in Nat /\ remaining' \in Int /\ remaining' <= Timeout
    BY <2>1 DEF CallInv, TypeOK
  <2>4. TypeOK'
    BY <2>1, <2>2, <2>3 DEF CallInv, TypeOK, hopVars
  <2>5. Phases' /\ AllBuffered'
    BY <2>1, <2>2, <2>3 DEF CallInv, Phases, AllBuffered
  <2> QED
    BY <2>2, <2>3, <2>4, <2>5 DEF CallInv, hopVars
<1>2. CASE Send
  <2>1. /\ pc = "send" /\ resp = Nothing /\ body = EmptyBody /\ result = Nothing
        /\ remaining \in 1 .. Timeout
        /\ addr' = Nothing /\ UNCHANGED remaining
    BY <1>2 DEF Send, CallInv, Phases
  <2>2. clock' \in Nat
    <3>1. PICK d \in 0 .. Waits * remaining : clock' = clock + d
      BY <1>2 DEF Send
    <3>2. Waits * remaining \in Nat /\ clock \in Nat
      BY <2>1 DEF CallInv, TypeOK
    <3> QED
      BY <3>1, <3>2
  <2>3. body' = body
    BY <1>2 DEF Send, Redirect, BadLocation, Final
  <2>4. ASSUME NEW r \in Responses, Redirect(r) PROVE CallInv'
    <3>1. r.code \in REDIRECT_CODES /\ r.location \in Urls /\ Len(trail) < MaxRedirects
      BY <2>4 DEF Redirect, IsRedirect, Responses
    <3>2. trail' \in Seq(REDIRECT_CODES) /\ Len(trail') <= MaxRedirects
      BY <2>4, <3>1 DEF Redirect, CallInv, TypeOK
    <3>3. permanent' \in BOOLEAN
      BY <2>4 DEF Redirect, StillPermanent, CallInv, TypeOK
    <3>4. method' \in {"GET", "POST"} /\ content' \in BOOLEAN
      BY <2>4 DEF Redirect, CallInv, TypeOK
    <3>5. TypeOK'
      BY <2>1, <2>2, <2>4, <3>1, <3>2, <3>3, <3>4 DEF Redirect, CallInv, TypeOK
    <3> QED
      BY <2>1, <2>4, <3>5 DEF Redirect, CallInv, Phases, AllBuffered
  <2>5. ASSUME NEW r \in Responses, Final(r) PROVE CallInv'
    <3>1. UNCHANGED <<hopVars, body>>
      BY <2>5 DEF Final
    <3>2. \/ pc' = "done" /\ UNCHANGED resp
          \/ /\ pc' = "body" /\ UNCHANGED result
             /\ resp' = [encoding |-> r.encoding, declared |-> r.declared]
      BY <2>5 DEF Final, Return, Raise
    <3>3. r.encoding \in Encodings /\ r.declared \in {NoLength} \cup Lengths
      BY DEF Responses, Encodings
    <3>4. CASE pc' = "done" /\ UNCHANGED resp
      BY <2>1, <2>2, <3>1, <3>4 DEF CallInv, TypeOK, Phases, AllBuffered, hopVars
    <3>5. CASE /\ pc' = "body" /\ UNCHANGED result
               /\ resp' = [encoding |-> r.encoding, declared |-> r.declared]
      <4>1. resp' \in [encoding : Encodings, declared : {NoLength} \cup Lengths]
        BY <3>3, <3>5
      <4>2. TypeOK'
        BY <2>1, <2>2, <3>1, <3>3, <3>5 DEF CallInv, TypeOK, Encodings, hopVars
      <4>3. Phases'
        BY <2>1, <3>5, <4>1 DEF Phases
      <4>4. AllBuffered'
        BY <2>1, <3>1 DEF AllBuffered, EmptyBody
      <4> QED
        BY <2>1, <3>1, <4>2, <4>3, <4>4 DEF CallInv, hopVars
    <3> QED
      BY <3>2, <3>4, <3>5
  <2>6. CASE (\E e : Raise(e)) /\ UNCHANGED <<hopVars, resp, body>>
    BY <2>1, <2>2, <2>6 DEF Raise, CallInv, TypeOK, Phases, AllBuffered, hopVars
  <2> QED
    BY <1>2, <2>4, <2>5, <2>6 DEF Send, BadLocation
<1>3. CASE Chunk \/ EndOfStream \/ BodyError
  <2>1. /\ pc = "body" /\ remaining \in 1 .. Timeout
        /\ UNCHANGED <<hopVars, addr, remaining, wire, resp>>
    BY <1>3 DEF Chunk, EndOfStream, BodyError, CallInv, Phases
  <2>2. clock' \in Nat
    <3>1. PICK d \in 0 .. remaining : clock' = clock + d
      BY <1>3 DEF Chunk, EndOfStream, BodyError
    <3> QED
      BY <2>1, <3>1 DEF CallInv, TypeOK
  <2>3. \/ pc' = "done" /\ body' \in Bodies
        \/ /\ UNCHANGED <<pc, result>>
           /\ body' \in Bodies
           /\ body'.buf = body'.got /\ body'.after = 0 /\ body'.buf <= MaxBytes
    <3>1. CASE EndOfStream \/ BodyError
      BY <3>1, FinishEnds DEF EndOfStream, BodyError, Raise, CallInv
    <3>2. CASE Chunk
      <4>1. PICK raw \in 1 .. MaxChunk, n \in 0 .. MaxChunk, last \in BOOLEAN,
                 after \in 0 .. MaxChunk :
              LET b == Taken(raw, n, last, after)
              IN  /\ after > 0 => b.eof
                  /\ \/ pc' = "done" /\ body' = body
                     \/ /\ body' = b
                        /\ IF Enough(b) THEN Finish(b) ELSE UNCHANGED <<pc, result>>
        BY <3>2 DEF Chunk, Raise
      <4> DEFINE b == Taken(raw, n, last, after)
      <4>2. b \in Bodies /\ b.after = after /\ (b.buf <= MaxBytes => b.buf = b.got - after)
        BY <2>1, TakenType
      <4> HIDE DEF b
      <4>3. CASE pc' = "done" /\ body' = body
        BY <4>3 DEF CallInv
      <4>4. CASE body' = b /\ Enough(b) /\ Finish(b)
        BY <4>2, <4>4, FinishEnds
      <4>5. CASE body' = b /\ ~Enough(b) /\ UNCHANGED <<pc, result>>
        <5>1. b.buf <= MaxBytes /\ ~b.eof
          BY <4>2, <4>5 DEF Enough, Oversize, Bodies
        <5>2. after = 0
          BY <4>1, <5>1 DEF b
        <5>3. b.got \in Nat /\ b.buf = b.got
          BY <4>2, <5>1, <5>2 DEF Bodies
        <5> QED
          BY <4>2, <4>5, <5>1, <5>2, <5>3
      <4> QED
        BY <4>1, <4>3, <4>4, <4>5 DEF b
    <3> QED
      BY <1>3, <3>1, <3>2
  <2>4. TypeOK'
    BY <2>1, <2>2, <2>3 DEF CallInv, TypeOK, Bodies, hopVars
  <2>5. Phases' /\ AllBuffered'
    BY <2>1, <2>3 DEF CallInv, Phases, AllBuffered
  <2> QED
    BY <2>1, <2>3, <2>4, <2>5 DEF CallInv, hopVars
<1>4. CASE UNCHANGED vars
  BY <1>4 DEF vars, CallInv, TypeOK, Phases, AllBuffered
<1> QED
  BY <1>1, <1>2, <1>3, <1>4 DEF Next

(* The invariant of a call holds in every reachable state. *)
LEMMA CallInvariant == Spec => []CallInv
<1>1. Init => CallInv
  BY SafeHttpAssumption, EmptyBodyType
  DEF Init, CallInv, TypeOK, Phases, AllBuffered, EmptyBody
<1>2. CallInv /\ [Next]_vars => CallInv'
  BY CallStep
<1> QED
  BY <1>1, <1>2, PTL DEF Spec

(* Type correctness: redirects stay within max_redirects, and the buffer       *)
(* within one chunk of the cap.                                                *)
THEOREM SafeHttpTypeCorrect == Spec => []TypeOK
<1>1. CallInv => TypeOK
  BY DEF CallInv
<1> QED
  BY <1>1, CallInvariant, PTL

-----------------------------------------------------------------------------
(* The addresses.  A hop keeps the address that was checked until it is used,  *)
(* and the request goes nowhere else.                                          *)
AddrInv ==
    /\ pc = "send" => IsPublic(addr)
    /\ OnlyPublic

(* resolve, pinned_url: no request of any hop goes to an address that is not   *)
(* public, whatever the DNS answered between the check and the connection.     *)
THEOREM OnlyPublicAlways == Spec => []OnlyPublic
<1>1. Init => AddrInv
  BY DEF Init, AddrInv, OnlyPublic
<1>2. ASSUME AddrInv, [Next]_vars PROVE AddrInv'
  <2>1. CASE Resolve
    <3>1. pc' = "send" => IsPublic(addr)'
      BY <2>1 DEF Resolve, Raise, IsPublic
    <3> QED
      BY <1>2, <2>1, <3>1 DEF Resolve, AddrInv, OnlyPublic
  <2>2. CASE Send
    <3>1. pc' # "send"
      BY <2>2 DEF Send, Redirect, BadLocation, Final, Return, Raise
    <3>2. wire'.addr = addr /\ IsPublic(addr)
      BY <1>2, <2>2 DEF Send, Pinned, AddrInv
    <3> QED
      BY <3>1, <3>2 DEF AddrInv, OnlyPublic, IsPublic
  <2>3. CASE Chunk \/ EndOfStream \/ BodyError
    <3>1. pc' # "send"
      BY <2>3 DEF Chunk, EndOfStream, BodyError, Finish, Return, Raise
    <3> QED
      BY <1>2, <2>3, <3>1 DEF Chunk, EndOfStream, BodyError, AddrInv, OnlyPublic
  <2>4. CASE UNCHANGED vars
    BY <1>2, <2>4 DEF vars, AddrInv, OnlyPublic, IsPublic
  <2> QED
    BY <1>2, <2>1, <2>2, <2>3, <2>4 DEF Next
<1>3. AddrInv => OnlyPublic
  BY DEF AddrInv
<1> QED
  BY <1>1, <1>2, <1>3, PTL DEF Spec

-----------------------------------------------------------------------------
(* The redirects.  The locals permanent and content summarise the trail.       *)
TrailInv ==
    /\ permanent <=> ToSet(trail) \subseteq PERMANENT_REDIRECT_CODES
    /\ content => method = "POST" /\ ToSet(trail) \subseteq {307, 308}
    /\ PermanentIfAllAre
    /\ ContentOnlyIfPreserved

(* One more redirect. *)
LEMMA TrailAppend ==
  ASSUME NEW S, NEW s \in Seq(S), NEW c \in S
  PROVE  ToSet(Append(s, c)) = ToSet(s) \cup {c}
<1>1. DOMAIN Append(s, c) = 1 .. Len(s) + 1 /\ DOMAIN s = 1 .. Len(s) /\ Len(s) \in Nat
  OBVIOUS
<1>2. \A i \in 1 .. Len(s) : Append(s, c)[i] = s[i]
  OBVIOUS
<1>3. Append(s, c)[Len(s) + 1] = c
  OBVIOUS
<1> QED
  BY <1>1, <1>2, <1>3 DEF ToSet

(* What a step may do to the result as far as moves are concerned. *)
Answered ==
    \/ UNCHANGED result
    \/ result'.error # "none"
    \/ result'.permanent_url = IF permanent /\ trail # << >> THEN url ELSE Nothing

(* The end of _read_body is such a step. *)
LEMMA FinishAnswers ==
  ASSUME NEW b, Finish(b)
  PROVE  Answered
  BY DEF Finish, Return, Raise, Answered

(* A call that ends tells of a permanent move as the trail says. *)
LEMMA ReturnedMove ==
  ASSUME CallInv, TrailInv, UNCHANGED trail, Answered
  PROVE  PermanentIfAllAre'
<1>1. CASE UNCHANGED result
  BY <1>1 DEF TrailInv, PermanentIfAllAre
<1>2. CASE result'.error # "none"
  BY <1>2 DEF PermanentIfAllAre
<1>3. CASE result'.permanent_url = IF permanent /\ trail # << >> THEN url ELSE Nothing
  <2>1. url # Nothing
    BY SafeHttpAssumption DEF CallInv, TypeOK
  <2> QED
    BY <1>3, <2>1 DEF TrailInv, PermanentIfAllAre
<1> QED
  BY <1>1, <1>2, <1>3 DEF Answered

(* Every step keeps what permanent and content say of the trail. *)
LEMMA TrailStep ==
  ASSUME CallInv, TrailInv, [Next]_vars
  PROVE  TrailInv'
<1>1. CASE UNCHANGED <<hopVars, wire>>
  <2>1. Answered
    <3>1. CASE Resolve
      BY <3>1 DEF Resolve, Raise, Answered
    <3>2. CASE Chunk
      BY <3>2, FinishAnswers DEF Chunk, Raise, Answered
    <3>3. CASE EndOfStream \/ BodyError
      BY <3>3, FinishAnswers DEF EndOfStream, BodyError, Raise, Answered
    <3>4. CASE Send
      BY <3>4 DEF Send, Redirect, BadLocation, Final, Raise, Return, Answered
    <3>5. CASE UNCHANGED vars
      BY <3>5 DEF vars, Answered
    <3> QED
      BY <3>1, <3>2, <3>3, <3>4, <3>5 DEF Next
  <2>2. PermanentIfAllAre'
    BY <1>1, <2>1, ReturnedMove DEF hopVars
  <2> QED
    BY <1>1, <2>2 DEF TrailInv, ContentOnlyIfPreserved, hopVars
<1>2. CASE Send
  <2>1. ContentOnlyIfPreserved'
    <3>1. wire'.content = content /\ wire'.method = method /\ wire'.after = trail
      BY <1>2 DEF Send
    <3> QED
      BY <3>1 DEF TrailInv, ContentOnlyIfPreserved
  <2>2. ASSUME NEW r \in Responses, Redirect(r) PROVE TrailInv'
    <3>1. r.code \in REDIRECT_CODES /\ trail \in Seq(REDIRECT_CODES)
      BY <2>2 DEF Redirect, IsRedirect, CallInv, TypeOK
    <3>2. ToSet(trail)' = ToSet(trail) \cup {r.code}
      BY <2>2, <3>1, TrailAppend DEF Redirect
    <3>3. permanent' <=> (ToSet(trail) \subseteq PERMANENT_REDIRECT_CODES)'
      <4>1. permanent' <=> (permanent /\ r.code \in PERMANENT_REDIRECT_CODES)
        BY <2>2 DEF Redirect, StillPermanent
      <4> QED
        BY <3>2, <4>1 DEF TrailInv
    <3>4. content' => method' = "POST" /\ (ToSet(trail) \subseteq {307, 308})'
      <4> SUFFICES ASSUME content' PROVE method' = "POST" /\ (ToSet(trail) \subseteq {307, 308})'
        OBVIOUS
      <4>1. ~DropsContent(r.code) /\ UNCHANGED <<method, content>>
        BY <2>2 DEF Redirect
      <4>2. method = "POST" /\ ToSet(trail) \subseteq {307, 308}
        BY <4>1 DEF TrailInv
      <4>3. r.code \in {307, 308}
        BY <3>1, <4>1, <4>2 DEF DropsContent, REDIRECT_CODES
      <4> QED
        BY <3>2, <4>1, <4>2, <4>3
    <3>5. PermanentIfAllAre'
      BY <1>2, <2>2 DEF Send, Redirect, CallInv, Phases, PermanentIfAllAre
    <3> QED
      BY <2>1, <3>3, <3>4, <3>5 DEF TrailInv
  <2>3. ASSUME NEW r \in Responses, Final(r) PROVE TrailInv'
    <3>1. UNCHANGED hopVars /\ Answered
      BY <2>3 DEF Final, Raise, Return, Answered
    <3>2. PermanentIfAllAre'
      BY <3>1, ReturnedMove DEF hopVars
    <3> QED
      BY <2>1, <3>1, <3>2 DEF TrailInv, hopVars
  <2>4. CASE (\E e : Raise(e)) /\ UNCHANGED hopVars /\ result'.error # "none"
    <3>1. PermanentIfAllAre'
      BY <2>4 DEF Raise, PermanentIfAllAre
    <3> QED
      BY <2>1, <2>4, <3>1 DEF TrailInv, hopVars
  <2> QED
    BY <1>2, <2>2, <2>3, <2>4 DEF Send, BadLocation, Raise
<1> QED
  BY <1>1, <1>2 DEF Next, Resolve, Chunk, EndOfStream, BodyError, vars, hopVars

(* What permanent and content say of the trail holds in every reachable state. *)
LEMMA TrailInvariant == Spec => []TrailInv
<1>1. Init => TrailInv
  <2> SUFFICES ASSUME Init PROVE TrailInv
    OBVIOUS
  <2>1. ToSet(trail) = {}
    BY DEF Init, ToSet
  <2> QED
    BY <2>1 DEF Init, TrailInv, PermanentIfAllAre, ContentOnlyIfPreserved
<1>2. CallInv /\ TrailInv /\ [Next]_vars => TrailInv'
  BY TrailStep
<1> QED
  BY <1>1, <1>2, CallInvariant, PTL DEF Spec

(* Response.permanent_url: the caller is told of a permanent move exactly when *)
(* there was a redirect and every redirect on the way, not only the last one,  *)
(* was permanent.                                                              *)
THEOREM PermanentIfAllAreAlways == Spec => []PermanentIfAllAre
<1>1. TrailInv => PermanentIfAllAre
  BY DEF TrailInv
<1> QED
  BY <1>1, TrailInvariant, PTL

(* request: the payload goes again only to hops reached by 307 and 308, and    *)
(* once dropped it never comes back.                                           *)
THEOREM ContentOnlyIfPreservedAlways == Spec => []ContentOnlyIfPreserved
<1>1. TrailInv => ContentOnlyIfPreserved
  BY DEF TrailInv
<1> QED
  BY <1>1, TrailInvariant, PTL

-----------------------------------------------------------------------------
(* The body. *)
(* The end of _read_body returns all of the stream, or says that it did not.   *)
LEMMA FinishedBody ==
  ASSUME CallInv, NEW b \in Bodies, body' = b, Finish(b),
         b.buf <= MaxBytes => b.buf = b.got - b.after, b.after > 0 => b.eof
  PROVE  NothingCutSilently'
<1> USE SafeHttpAssumption
<1>1. b.buf \in Nat /\ MaxBytes \in Nat
  BY DEF Bodies
<1>2. CASE ~Oversize(b)
  <2>1. b.buf <= MaxBytes
    BY <1>1, <1>2 DEF Oversize
  <2>2. result'.size = b.buf
    BY <1>2 DEF Finish, Return
  <2> QED
    BY <2>1, <2>2 DEF NothingCutSilently
<1>3. CASE Oversize(b) /\ call.truncate
  <2>1. result'.size = Least(b.buf, MaxBytes) /\ result'.truncated = TRUE
    BY <1>3 DEF Finish, Return
  <2> QED
    BY <1>1, <2>1 DEF NothingCutSilently, Least
<1>4. CASE Oversize(b) /\ ~call.truncate
  BY <1>4 DEF Finish, Raise, NothingCutSilently
<1> QED
  BY <1>2, <1>3, <1>4

(* _read_body: whatever the encoding and the sizes of the chunks, a body that  *)
(* is returned without the mark truncated is within the cap and misses nothing *)
(* of what the site sent but data after the end of a compressed stream.        *)
THEOREM NothingCutSilentlyAlways == Spec => []NothingCutSilently
<1>1. Init => NothingCutSilently
  BY DEF Init, NothingCutSilently
<1>2. ASSUME CallInv, NothingCutSilently, [Next]_vars PROVE NothingCutSilently'
  <2>1. CASE Resolve
    BY <1>2, <2>1 DEF Resolve, NothingCutSilently, CallInv, Phases
  <2>2. CASE Send
    <3>1. resp = Nothing /\ result = Nothing
      BY <1>2, <2>2 DEF Send, CallInv, Phases
    <3>2. UNCHANGED resp \/ UNCHANGED result
      BY <2>2 DEF Send, Redirect, BadLocation, Final
    <3> QED
      BY <3>1, <3>2 DEF NothingCutSilently
  <2>3. CASE BodyError
    BY <2>3 DEF BodyError, Raise, NothingCutSilently
  <2>4. CASE EndOfStream
    <3>1. body \in Bodies /\ body.buf = body.got - body.after /\ body.after = 0
      BY <1>2, <2>4 DEF EndOfStream, CallInv, AllBuffered, Bodies
    <3> QED
      BY <1>2, <2>4, <3>1, FinishedBody DEF EndOfStream
  <2>5. CASE Chunk
    <3>1. pc = "body" /\ result = Nothing
      BY <1>2, <2>5 DEF Chunk, CallInv, Phases
    <3>2. PICK raw \in 1 .. MaxChunk, n \in 0 .. MaxChunk, last \in BOOLEAN,
               after \in 0 .. MaxChunk :
            LET b == Taken(raw, n, last, after)
            IN  /\ after > 0 => b.eof
                /\ \/ Raise("deadline") \/ Raise("transport")
                   \/ body' = b /\ (Finish(b) \/ UNCHANGED result)
      BY <2>5 DEF Chunk
    <3>3. CASE Raise("deadline") \/ Raise("transport") \/ UNCHANGED result
      BY <3>1, <3>3 DEF Raise, NothingCutSilently
    <3> DEFINE b == Taken(raw, n, last, after)
    <3>4. b \in Bodies /\ b.after = after /\ (b.buf <= MaxBytes => b.buf = b.got - after)
      BY <1>2, <3>1, TakenType
    <3>5. after > 0 => b.eof
      BY <3>2
    <3> HIDE DEF b
    <3>6. CASE body' = b /\ Finish(b)
      BY <1>2, <3>4, <3>5, <3>6, FinishedBody
    <3> QED
      BY <3>2, <3>3, <3>6 DEF b
  <2>6. CASE UNCHANGED vars
    BY <1>2, <2>6 DEF vars, NothingCutSilently
  <2> QED
    BY <1>2, <2>1, <2>2, <2>3, <2>4, <2>5, <2>6 DEF Next
<1> QED
  BY <1>1, <1>2, CallInvariant, PTL DEF Spec

-----------------------------------------------------------------------------
(* The deadline.  A hop begins with what is left of it, so only the waits of   *)
(* one hop can run past it.                                                    *)
DeadlineInv ==
    /\ pc \in {"resolve", "body"} => clock <= Waits * Timeout
    /\ pc = "send" => clock + remaining = Timeout
    /\ DeadlineHolds

(* The waits of one hop, each as long as what remained when it began. *)
LEMMA HopBound ==
  ASSUME NEW r \in 1 .. Timeout, NEW d \in 0 .. Waits * r
  PROVE  Timeout - r + d <= Waits * Timeout
<1> USE SafeHttpAssumption
<1>1. Waits \in Nat /\ Waits >= 1 /\ Timeout \in Nat /\ Timeout >= 1
  OBVIOUS
<1> DEFINE W == Waits - 1
           T == Timeout - r
<1>2. W \in Nat /\ T \in Nat
  BY <1>1
<1>3. W * T >= 0
  <2> HIDE DEF W, T
  <2> QED
    BY <1>2
<1>4. (W + 1) * (T + r) = W * T + W * r + T + r /\ (W + 1) * r = W * r + r
  <2> HIDE DEF W, T
  <2> QED
    BY <1>2
<1>5. W + 1 = Waits /\ T + r = Timeout
  BY <1>1
<1>6. Waits * Timeout = W * T + W * r + T + r /\ Waits * r = W * r + r
  BY <1>4, <1>5
<1>7. W * T \in Int /\ W * r \in Int /\ Waits * r \in Int /\ Waits * Timeout \in Int
  BY <1>1, <1>2
<1>8. d <= Waits * r /\ d \in Int
  BY <1>7
<1> QED
  <2>1. T + d <= T + W * r + r
    <3> HIDE DEF W, T
    <3> QED
      BY <1>2, <1>6, <1>7, <1>8
  <2>2. T + d <= Waits * Timeout
    <3> HIDE DEF W, T
    <3> QED
      BY <1>2, <1>3, <1>6, <1>7, <1>8, <2>1
  <2> QED
    BY <2>2

(* The bound of a whole call. *)
LEMMA CallBound ==
  /\ Waits * Timeout \in Nat /\ Timeout <= Waits * Timeout
  /\ (Waits + 1) * Timeout + DnsLimit = Waits * Timeout + Timeout + DnsLimit
<1>1. Waits \in Nat /\ Waits >= 1 /\ Timeout \in Nat /\ Timeout >= 1 /\ DnsLimit \in Nat
  BY SafeHttpAssumption
<1>2. Timeout - 1 + 1 <= Waits * Timeout
  BY <1>1, HopBound
<1>3. (Waits + 1) * Timeout = Waits * Timeout + Timeout /\ Waits * Timeout \in Nat
  BY <1>1
<1> QED
  BY <1>1, <1>2, <1>3

(* request: the hops share one deadline.  Past it there is at most what the    *)
(* waits of one hop take, one read and one name lookup, and never another hop. *)
THEOREM DeadlineHoldsAlways == Spec => []DeadlineHolds
<1>1. Init => DeadlineInv
  BY SafeHttpAssumption, CallBound DEF Init, DeadlineInv, DeadlineHolds
<1>2. ASSUME CallInv, DeadlineInv, [Next]_vars PROVE DeadlineInv'
  <2> DEFINE WT == Waits * Timeout
  <2>1. /\ WT \in Nat /\ Timeout <= WT /\ Timeout \in Nat /\ DnsLimit \in Nat
        /\ (Waits + 1) * Timeout + DnsLimit = WT + Timeout + DnsLimit
        /\ clock \in Nat
    BY <1>2, CallBound, SafeHttpAssumption DEF CallInv, TypeOK
  <2> HIDE DEF WT
  <2>2. ASSUME /\ pc' \in {"resolve", "body"} => clock' <= WT
               /\ pc' = "send" => clock' + remaining' = Timeout
               /\ clock' <= WT + Timeout + DnsLimit
        PROVE  DeadlineInv'
    BY <2>1, <2>2 DEF DeadlineInv, DeadlineHolds, WT
  <2>3. CASE Resolve
    <3>1. PICK d \in 0 .. DnsLimit : clock' = clock + d /\ remaining' = Timeout - clock'
      BY <2>3 DEF Resolve
    <3>2. pc = "resolve" /\ pc' \in {"send", "done"}
      BY <2>3 DEF Resolve, Raise
    <3>3. clock <= WT
      BY <1>2, <3>2 DEF DeadlineInv, WT
    <3> QED
      BY <2>1, <2>2, <3>1, <3>2, <3>3
  <2>4. CASE Send
    <3>1. PICK d \in 0 .. Waits * remaining : clock' = clock + d
      BY <2>4 DEF Send
    <3>2. pc = "send" /\ pc' # "send"
      BY <2>4 DEF Send, Redirect, BadLocation, Final, Return, Raise
    <3>3. remaining \in 1 .. Timeout /\ clock = Timeout - remaining
      BY <1>2, <2>1, <3>2 DEF CallInv, Phases, DeadlineInv
    <3>4. Timeout - remaining + d <= WT
      BY <3>3, HopBound DEF WT
    <3> QED
      BY <2>1, <2>2, <3>1, <3>2, <3>3, <3>4
  <2>5. CASE Chunk \/ EndOfStream \/ BodyError
    <3>1. PICK d \in 0 .. remaining : clock' = clock + d
      BY <2>5 DEF Chunk, EndOfStream, BodyError
    <3>2. pc = "body" /\ remaining \in 1 .. Timeout /\ clock <= WT
      BY <1>2, <2>5 DEF Chunk, EndOfStream, BodyError, CallInv, Phases, DeadlineInv, WT
    <3>3. pc' = "done" \/ (pc' = "body" /\ clock' <= Timeout)
      BY <2>5, <3>2, FinishEnds DEF Chunk, EndOfStream, BodyError, Raise
    <3> QED
      BY <2>1, <2>2, <3>1, <3>2, <3>3
  <2>6. CASE UNCHANGED vars
    BY <1>2, <2>6 DEF vars, DeadlineInv, DeadlineHolds
  <2> QED
    BY <1>2, <2>3, <2>4, <2>5, <2>6 DEF Next
<1>3. DeadlineInv => DeadlineHolds
  BY DEF DeadlineInv
<1> QED
  BY <1>1, <1>2, <1>3, CallInvariant, PTL DEF Spec

-----------------------------------------------------------------------------
(* The steps of a call.  A body that is still being read is within the raw     *)
(* limit, because _read_body looks at it after every chunk.                    *)
RawInv == pc = "body" => body.raw <= RawLimit

(* What is left to do, by the phase of the call. *)
LEMMA StepsLeftIs ==
  /\ pc = "resolve" => StepsLeft = RawLimit + 3 + 2 * (MaxRedirects - Len(trail))
  /\ pc = "send" => StepsLeft = RawLimit + 2 + 2 * (MaxRedirects - Len(trail))
  /\ pc = "body" => StepsLeft = RawLimit + 1 - body.raw
  /\ pc = "done" => StepsLeft = 0
  BY DEF StepsLeft

LEMMA StepsLeftPrimeIs ==
  /\ pc' = "resolve" => StepsLeft' = RawLimit + 3 + 2 * (MaxRedirects - Len(trail'))
  /\ pc' = "send" => StepsLeft' = RawLimit + 2 + 2 * (MaxRedirects - Len(trail'))
  /\ pc' = "body" => StepsLeft' = RawLimit + 1 - body'.raw
  /\ pc' = "done" => StepsLeft' = 0
  BY DEF StepsLeft, RawLimit

(* Every step leaves fewer steps, and a body within the raw limit. *)
LEMMA StepsFall ==
  ASSUME CallInv, RawInv, Next
  PROVE  RawInv' /\ StepsLeft' \in 0 .. StepsLeft - 1
<1> USE SafeHttpAssumption
<1>1. /\ RawLimit \in Nat /\ MaxRedirects \in Nat
      /\ Len(trail) \in Nat /\ Len(trail) <= MaxRedirects /\ body.raw \in Nat
  BY DEF RawLimit, CallInv, TypeOK, Bodies
<1>2. CASE Resolve
  <2>1. pc = "resolve" /\ pc' \in {"send", "done"} /\ UNCHANGED <<trail, body>>
    BY <1>2 DEF Resolve, Raise, hopVars
  <2> QED
    BY <1>1, <2>1, StepsLeftIs, StepsLeftPrimeIs DEF RawInv
<1>3. CASE Send
  <2>1. pc = "send" /\ body.raw = 0 /\ UNCHANGED body
    <3>1. UNCHANGED body
      BY <1>3 DEF Send, Redirect, BadLocation, Final
    <3>2. pc = "send" /\ body = EmptyBody
      BY <1>3 DEF Send, CallInv, Phases
    <3> QED
      BY <3>1, <3>2 DEF EmptyBody
  <2>2. \/ pc' \in {"body", "done"} /\ UNCHANGED trail
        \/ pc' = "resolve" /\ Len(trail) < MaxRedirects /\ Len(trail') = Len(trail) + 1
    <3>1. ASSUME NEW r \in Responses, Redirect(r)
          PROVE  pc' = "resolve" /\ Len(trail) < MaxRedirects /\ Len(trail') = Len(trail) + 1
      <4>1. trail \in Seq(REDIRECT_CODES) /\ trail' = Append(trail, r.code)
            /\ r.code \in REDIRECT_CODES
        BY <3>1 DEF Redirect, IsRedirect, CallInv, TypeOK
      <4>2. Len(trail') = Len(trail) + 1
        BY <4>1
      <4> QED
        BY <3>1, <4>2 DEF Redirect, IsRedirect
    <3>2. ASSUME NEW r \in Responses, Final(r)
          PROVE  pc' \in {"body", "done"} /\ UNCHANGED trail
      BY <3>2 DEF Final, Return, Raise, hopVars
    <3> QED
      BY <1>3, <3>1, <3>2 DEF Send, BadLocation, Raise, hopVars
  <2>3. CASE pc' \in {"body", "done"} /\ UNCHANGED trail
    BY <1>1, <2>1, <2>3, StepsLeftIs, StepsLeftPrimeIs DEF RawInv
  <2>4. CASE pc' = "resolve" /\ Len(trail) < MaxRedirects /\ Len(trail') = Len(trail) + 1
    BY <1>1, <2>1, <2>4, StepsLeftIs, StepsLeftPrimeIs DEF RawInv
  <2> QED
    BY <2>2, <2>3, <2>4
<1>4. CASE Chunk \/ EndOfStream \/ BodyError
  <2>1. pc = "body" /\ body.raw <= RawLimit
    BY <1>4 DEF Chunk, EndOfStream, BodyError, RawInv
  <2>2. \/ pc' = "done"
        \/ pc' = "body" /\ body'.raw \in Nat /\ body'.raw > body.raw /\ body'.raw <= RawLimit
    <3>1. CASE EndOfStream \/ BodyError
      BY <3>1, FinishEnds DEF EndOfStream, BodyError, Raise
    <3>2. CASE Chunk
      <4>1. PICK raw \in 1 .. MaxChunk, n \in 0 .. MaxChunk, last \in BOOLEAN,
                 after \in 0 .. MaxChunk :
              LET b == Taken(raw, n, last, after)
              IN  pc' = "done" \/ (body' = b /\ UNCHANGED pc /\ ~Enough(b))
        BY <3>2, FinishEnds DEF Chunk, Raise
      <4> DEFINE b == Taken(raw, n, last, after)
      <4>2. b.raw = CountedTo(body.raw + raw) /\ b \in Bodies
        BY <2>1, TakenType DEF Taken
      <4>3. ~Enough(b) => b.raw <= RawLimit
        BY <1>1, <4>2 DEF Enough, Oversize, Bodies
      <4>4. body.raw + raw \in Nat /\ body.raw + raw > body.raw
        BY <1>1
      <4>5. \A m \in Nat : CountedTo(m) <= RawLimit => CountedTo(m) = m
        <5>1. \A m \in Nat : (m - RawLimit - 1) % 2 \in 0 .. 1
          BY <1>1
        <5> QED
          BY <1>1, <5>1 DEF CountedTo
      <4> HIDE DEF b
      <4>6. CASE body' = b /\ UNCHANGED pc /\ ~Enough(b)
        BY <2>1, <4>2, <4>3, <4>4, <4>5, <4>6
      <4> QED
        BY <4>1, <4>6 DEF b
    <3> QED
      BY <1>4, <3>1, <3>2
  <2>3. StepsLeft = RawLimit + 1 - body.raw
    BY <2>1, StepsLeftIs
  <2>4. CASE pc' = "done"
    BY <1>1, <2>1, <2>3, <2>4, StepsLeftPrimeIs DEF RawInv
  <2>5. CASE pc' = "body" /\ body'.raw \in Nat /\ body'.raw > body.raw /\ body'.raw <= RawLimit
    <3>1. StepsLeft' = RawLimit + 1 - body'.raw
      BY <2>5, StepsLeftPrimeIs
    <3>2. StepsLeft' \in 0 .. StepsLeft - 1
      <4>1. \A n, a, b \in Nat : a < b /\ b <= n => n + 1 - b \in 0 .. (n + 1 - a) - 1
        OBVIOUS
      <4>2. RawLimit + 1 - body'.raw \in 0 .. (RawLimit + 1 - body.raw) - 1
        BY <1>1, <2>5, <4>1
      <4> QED
        BY <2>3, <3>1, <4>2
    <3> QED
      BY <2>5, <3>2 DEF RawInv, RawLimit
  <2> QED
    BY <2>2, <2>4, <2>5
<1> QED
  BY <1>2, <1>3, <1>4 DEF Next

(* request, _read_body: a call has finitely many steps, for any limits: at     *)
(* most two for each redirect and one for each byte of the raw limit.  That    *)
(* the next step comes, fairness says.                                         *)
THEOREM StepsRunOutAlways == Spec => StepsRunOut
<1>1. Init => RawInv
  BY DEF Init, RawInv
<1>2. CallInv /\ RawInv /\ [Next]_vars => RawInv'
  <2>1. ASSUME RawInv, UNCHANGED vars PROVE RawInv'
    BY <2>1 DEF vars, RawInv, RawLimit
  <2> QED
    BY <2>1, StepsFall
<1>3. CallInv /\ RawInv /\ [Next]_vars => [StepsLeft' \in 0 .. StepsLeft - 1]_vars
  BY StepsFall
<1> QED
  BY <1>1, <1>2, <1>3, CallInvariant, PTL DEF Spec, StepsRunOut
=============================================================================
