---------------------------- MODULE BoundedHttp ----------------------------
(* How the edge functions read JSON bodies that somebody else sends, chunk by *)
(* chunk and up to a limit: "request" and "worker" the two entrances of       *)
(* delete-account, "verify" its call of PostgREST, "shared" boundedJson.ts,   *)
(* and "upstream" the retried GET of upstreamHttp.ts.  The length that the    *)
(* head declares need not be that of the bytes that come out of the stream    *)
(* (it may be compressed), and a character may be cut by a chunk's end.       *)
EXTENDS Naturals, Sequences, SequencesExt

CONSTANTS Limit,     \* the limit, in bytes
          MaxBytes,  \* bound: the length of a body
          Attempts   \* MAX_ATTEMPTS of "upstream"

\* What the constants are.
BoundedHttpAssumption == Limit \in Nat /\ MaxBytes \in Nat /\ Attempts \in Nat \ {0}

VARIABLES reader,   \* who reads
          asked,    \* the attempts so far
          msg,      \* the message that is read
          phase,    \* where the reader is
          got,      \* the bytes it has
          decoder,  \* the state of its TextDecoder
          result,   \* "ok", or why it throws
          freed,    \* the body was read to its end, cancelled or lost
          broke     \* history: the connection of this attempt broke
vars == <<reader, asked, msg, phase, got, decoder, result, freed, broke>>

Readers   == {"request", "worker", "verify", "shared", "upstream"}
Streaming == {"request", "worker", "verify"}

\* A byte is a character, or the first or second half of one.
Bytes    == {"char", "lead", "tail"}
Bodies   == UNION {[1..n -> Bytes] : n \in 0..MaxBytes}
Statuses == {"ok", "redirect", "retry", "refused"}
Messages == [typed : BOOLEAN, declared : {"absent", "bad", "within", "above"},
             bytes : Bodies, json : BOOLEAN]
Empty    == [typed |-> TRUE, declared |-> "absent", bytes |-> <<>>, json |-> FALSE]

HttpTypeOK ==
    /\ reader \in Readers /\ asked \in 0..Attempts /\ msg \in Messages
    /\ phase \in {"wait", "body", "sleep", "done"} /\ got \in 0..Len(msg.bytes)
    /\ decoder \in {"clean", "half", "bad"} /\ freed \in BOOLEAN /\ broke \in BOOLEAN
    /\ (result # "none") = (phase = "done")

Init ==
    /\ reader \in Readers
    /\ asked = 1 /\ msg = Empty /\ phase = "wait"
    /\ got = 0 /\ decoder = "clean" /\ result = "none"
    /\ freed = FALSE /\ broke = FALSE

End(why) == phase' = "done" /\ result' = why

\* fetchBoundedJson tries again; the others, and the last attempt, throw.
GiveUp(why) ==
    IF reader = "upstream" /\ asked < Attempts
    THEN phase' = "sleep" /\ result' = "none" ELSE End(why)

-----------------------------------------------------------------------------
(* The head *)

\* A response of the provider that is not 2xx is cancelled.
Refuse(status) ==
    /\ reader = "upstream" /\ phase = "wait" /\ status # "ok"
    /\ freed' = TRUE
    /\ IF status = "retry" THEN GiveUp("status") ELSE End("status")
    /\ UNCHANGED <<reader, asked, msg, got, decoder, broke>>

\* Why the head m is refused, if it is.
HeadFault(m) ==
    IF ~m.typed THEN "type"
    ELSE IF m.declared = "bad" THEN (IF reader = "shared" THEN "large" ELSE "length")
    ELSE IF m.declared = "above" THEN "large" ELSE "none"

\* The head arrives; only upstreamHttp.ts cancels the body that it refuses.
HeadArrives(m) ==
    /\ phase = "wait"
    /\ m.json => m.bytes # <<>>
    /\ msg' = m
    /\ IF HeadFault(m) = "none" THEN phase' = "body" /\ result' = "none" ELSE End(HeadFault(m))
    /\ freed' = (HeadFault(m) # "none" /\ reader = "upstream")
    /\ UNCHANGED <<reader, asked, got, decoder, broke>>

-----------------------------------------------------------------------------
(* The body *)

\* A second half comes where a first one is open: that of the byte before or,
\* at the beginning of the chunk, the one that d has left.
Paired(d, chunk) ==
    \A i \in DOMAIN chunk :
        chunk[i] = "tail" <=> IF i = 1 THEN d = "half" ELSE chunk[i - 1] = "lead"

\* Mutant: every chunk is decoded by itself.
DecodedAlone(d, chunk) ==
    IF chunk = <<>> \/ (Paired("clean", chunk) /\ Last(chunk) # "lead") THEN "clean" ELSE "bad"

\* TextDecoder.decode with fatal and stream: half a character waits.
Decoded(d, chunk) ==
    IF chunk = <<>> THEN d
    ELSE IF d = "bad" \/ ~Paired(d, chunk) THEN "bad"
    ELSE IF Last(chunk) = "lead" THEN "half" ELSE "clean"

\* Mutant: one byte too many.
TooManyLater(total) == total > Limit + 1
TooMany(total)      == total > Limit

\* A chunk of n bytes that goes beyond the limit: the stream is cancelled; in
\* delete-account a rejected cancel hides why the body was refused.
Overflow(n) ==
    /\ phase = "body" /\ got + n <= Len(msg.bytes) /\ TooMany(got + n)
    /\ \/ freed' = TRUE /\ End("large")
       \/ reader = "request" /\ freed' = FALSE /\ End("json")
    /\ UNCHANGED <<reader, asked, msg, got, decoder, broke>>

\* The entrances of delete-account and its verification decode as they read.
StreamChunk(n) ==
    /\ reader \in Streaming
    /\ phase = "body" /\ got + n <= Len(msg.bytes) /\ ~TooMany(got + n)
    /\ got' = got + n
    /\ decoder' = Decoded(decoder, SubSeq(msg.bytes, got + 1, got + n))
    /\ IF decoder' = "bad" THEN End("json") ELSE UNCHANGED <<phase, result>>
    /\ UNCHANGED <<reader, asked, msg, freed, broke>>

\* The others collect the chunks.
KeepChunk(n) ==
    /\ reader \notin Streaming
    /\ phase = "body" /\ got + n <= Len(msg.bytes) /\ ~TooMany(got + n)
    /\ got' = got + n
    /\ UNCHANGED <<reader, asked, msg, phase, decoder, result, freed, broke>>

\* The stream ends: what is left of a character is an error, then JSON.parse.
Finish ==
    /\ phase = "body" /\ got = Len(msg.bytes)
    /\ freed' = TRUE
    /\ decoder' = IF reader \in Streaming THEN decoder ELSE Decoded("clean", msg.bytes)
    /\ End(IF decoder' # "clean" THEN (IF reader \in Streaming THEN "json" ELSE "encoding")
           ELSE IF msg.json THEN "ok" ELSE "json")
    /\ UNCHANGED <<reader, asked, msg, got, broke>>

\* The connection breaks, or the deadline, which runs until the body has been
\* read, aborts it.
Break ==
    /\ phase \in {"wait", "body"}
    /\ freed' = TRUE /\ broke' = TRUE
    /\ IF reader \in {"request", "worker"} THEN End("json") ELSE GiveUp("network")
    /\ UNCHANGED <<reader, asked, msg, got, decoder>>

\* After retryDelayMs a new request is sent.
Again ==
    /\ phase = "sleep"
    /\ phase' = "wait" /\ asked' = asked + 1
    /\ msg' = Empty /\ got' = 0 /\ decoder' = "clean"
    /\ freed' = FALSE /\ broke' = FALSE
    /\ UNCHANGED <<reader, result>>

Next ==
    \/ \E status \in Statuses : Refuse(status)
    \/ \E m \in Messages : HeadArrives(m)
    \/ \E n \in 1..MaxBytes : Overflow(n) \/ StreamChunk(n) \/ KeepChunk(n)
    \/ Finish \/ Break \/ Again

Spec == Init /\ [][Next]_vars

-----------------------------------------------------------------------------
(* Properties *)

Sound(m) ==
    /\ m.typed /\ m.json /\ Len(m.bytes) <= Limit
    /\ Decoded("clean", m.bytes) = "clean"

\* Whatever length is declared, however the bytes are cut into chunks and
\* whichever attempt they belong to: what is accepted is a sound message that
\* was read to its end within the limit, a sound message that arrives is never
\* refused, and the retried GET leaves no response open.
BodyRead ==
    phase = "done" =>
        /\ result = "ok" => Sound(msg) /\ got = Len(msg.bytes) /\ freed /\ ~broke
        /\ Sound(msg) /\ msg.declared \in {"absent", "within"} /\ ~broke => result = "ok"
        /\ reader = "upstream" => freed
=============================================================================
