------------------------------ MODULE Exchange ------------------------------
(***************************************************************************)
(* acquire_token of crates/tydence/src/tsp.rs over the transport of        *)
(* transport.rs: a nonce is drawn, one request is sent as often as it is   *)
(* interrupted, and one answer is screened against the request and the     *)
(* clock.  The authority and the network are external: a request may       *)
(* arrive late or never, every request that arrived may be answered any    *)
(* number of times with any genTime, and an answer may be another one's.   *)
(***************************************************************************)
EXTENDS Integers, Sequences, FiniteSets

CONSTANTS
    Imprint,        \* a payload's digest under a site's algorithm
    Width,          \* bytes of a nonce; 8 in the code
    HalfByte,       \* half the values of a byte; 128 in the code
    Draws,          \* what the environment may draw, each once
    MaxRetries,     \* INTERRUPT_RETRIES
    Timeout,        \* EXCHANGE_TIMEOUT
    MaxDivergence,  \* MAX_GEN_TIME_DIVERGENCE
    Drifts,         \* how far an authority's clock may be off
    MaxTime,        \* bound on the clock
    MaxTokens,      \* bound on what the authority issues
    None

Byte == 0..(2 * HalfByte - 1)

ASSUME ExchangeAssumption ==
    /\ Width \in Nat \ {0}
    /\ HalfByte \in Nat \ {0}
    /\ Draws \subseteq [1..Width -> Byte]
    /\ MaxRetries \in Nat
    /\ Timeout \in Nat
    /\ MaxDivergence \in Nat
    /\ Drifts \subseteq Int
    /\ None \notin Imprint

VARIABLES
    now,        \* the local clock, which is right
    phase,      \* "idle", "attempt", "waiting" or "screening"
    wanted,     \* the imprint of the request, None between calls
    nonce,      \* the encoded nonce of the request
    drawn,      \* the bytes it was drawn as
    asked,      \* history: when the call began
    began,      \* when the current attempt was sent
    remaining,  \* retries left
    reply,      \* the token the answer holds, None if there is none
    obtained,   \* what the last call returned, None for an error
    spent,      \* the nonces drawn so far
    sent,       \* requests that have reached the authority
    issued      \* tokens the authority has made

request == <<wanted, nonce, drawn>>
network == <<sent, issued>>
exchangeVars == <<now, phase, request, asked, began, remaining, reply,
                  obtained, spent, network>>

Nonce == Seq(Byte)

Request == [imprint : Imprint, nonce : Nonce]

\* well says that it is signed data with one signer, certificates and an
\* embedded TSTInfo without extensions or digest parameters; madeAt is
\* history.
Token == [imprint : Imprint, nonce : Nonce, genTime : Int, madeAt : Nat,
          well : BOOLEAN]

ExchangeTypeOK ==
    /\ now \in Nat
    /\ phase \in {"idle", "attempt", "waiting", "screening"}
    /\ wanted \in Imprint \cup {None}
    /\ nonce \in Nonce
    /\ drawn \in Draws \cup {None}
    /\ asked \in Nat
    /\ began \in Nat
    /\ remaining \in 0..MaxRetries
    /\ reply \in Token \cup {None}
    /\ obtained \in Token \cup {None}
    /\ spent \subseteq Draws
    /\ sent \subseteq Request
    /\ issued \subseteq Token

-----------------------------------------------------------------------------
\* Where the significant bytes start: a nonce of zeros keeps its last one.
IsStart(bytes, k) ==
    /\ \A j \in 1..(k - 1) : bytes[j] = 0
    /\ bytes[k] # 0 \/ k = Width

Significant(bytes) ==
    SubSeq(bytes, CHOOSE k \in 1..Width : IsStart(bytes, k), Width)

\* Broken on purpose: a high first bit is left as it is.
EncodeUnpadded(bytes) == Significant(bytes)

\* encode_nonce: the content of a DER INTEGER, which is signed.
EncodeNonce(bytes) ==
    IF Significant(bytes)[1] >= HalfByte
    THEN <<0>> \o Significant(bytes)
    ELSE Significant(bytes)

-----------------------------------------------------------------------------
ExchangeInit ==
    /\ now = 0
    /\ phase = "idle"
    /\ wanted = None /\ nonce = <<>> /\ drawn = None
    /\ asked = 0 /\ began = 0 /\ remaining = 0
    /\ reply = None /\ obtained = None
    /\ spent = {} /\ sent = {} /\ issued = {}

\* acquire_token draws a nonce and builds the request.
BuildRequest(imprint, bytes) ==
    /\ phase = "idle"
    /\ bytes \notin spent
    /\ phase' = "attempt"
    /\ wanted' = imprint
    /\ drawn' = bytes
    /\ nonce' = EncodeNonce(bytes)
    /\ asked' = now
    /\ remaining' = MaxRetries
    /\ obtained' = None
    /\ spent' = spent \cup {bytes}
    /\ UNCHANGED <<now, began, reply, network>>

\* with_interrupt_retry runs the exchange once, from the start.
SendRequest ==
    /\ phase = "attempt"
    /\ phase' = "waiting"
    /\ began' = now
    /\ UNCHANGED <<now, request, asked, remaining, reply, obtained, spent,
                   network>>

\* Broken on purpose: a retry is not counted.
InterruptedUncounted ==
    /\ phase = "waiting"
    /\ phase' = "attempt"
    /\ UNCHANGED <<now, request, asked, began, remaining, reply, obtained,
                   spent, network>>

\* A signal lands during a blocking call.
Interrupted ==
    /\ phase = "waiting"
    /\ remaining > 0
    /\ phase' = "attempt"
    /\ remaining' = remaining - 1
    /\ UNCHANGED <<now, request, asked, began, reply, obtained, spent,
                   network>>

\* A body is read: a denial, bytes that do not parse, or a token.
Answered(answer) ==
    /\ phase = "waiting"
    /\ phase' = "screening"
    /\ reply' = answer
    /\ UNCHANGED <<now, request, asked, began, remaining, obtained, spent,
                   network>>

\* The call returns and its locals are gone.
Return ==
    /\ phase' = "idle"
    /\ wanted' = None /\ nonce' = <<>> /\ drawn' = None
    /\ began' = 0 /\ remaining' = 0 /\ reply' = None
    /\ UNCHANGED <<now, asked, spent, network>>

\* The timeout, an HTTP status or content type, or a signal too many.
ExchangeFails ==
    /\ phase = "waiting"
    /\ Return
    /\ UNCHANGED obtained

\* matches_sent_imprint.  Accepting this much is not enough.
MatchesImprint(token) == token.imprint = wanted

MatchesRequest(token) == MatchesImprint(token) /\ token.nonce = nonce

\* Broken on purpose: the clock is read before the exchange.
LocalTimeEarly == asked

\* What acquire_token gives accept_response as the local time.
LocalTime == now

\* ensure_plausible_gen_time.
Plausible(token) ==
    (token.genTime - LocalTime) \in -MaxDivergence..MaxDivergence

\* accept_response.
Acceptable(token) ==
    token # None /\ token.well /\ MatchesRequest(token) /\ Plausible(token)

Accept ==
    /\ phase = "screening"
    /\ Acceptable(reply)
    /\ Return
    /\ obtained' = reply

Refuse ==
    /\ phase = "screening"
    /\ ~Acceptable(reply)
    /\ Return
    /\ UNCHANGED obtained

Proceed ==
    \/ SendRequest
    \/ Interrupted
    \/ ExchangeFails
    \/ \E answer \in issued \cup {None} : Answered(answer)
    \/ Accept
    \/ Refuse

-----------------------------------------------------------------------------
\* External: the request reaches the authority.
Arrive ==
    /\ phase = "waiting"
    /\ sent' = sent \cup {[imprint |-> wanted, nonce |-> nonce]}
    /\ UNCHANGED <<now, phase, request, asked, began, remaining, reply,
                   obtained, spent, issued>>

\* External: the authority makes a token, for whom it may have given up.
Issue(received, drift, well) ==
    /\ Cardinality(issued) < MaxTokens
    /\ issued' = issued \cup
           {[imprint |-> received.imprint, nonce |-> received.nonce,
             genTime |-> now + drift, madeAt |-> now, well |-> well]}
    /\ UNCHANGED <<now, phase, request, asked, began, remaining, reply,
                   obtained, spent, sent>>

\* Time passes between calls and while an attempt waits, which it does no
\* longer than its timeout.
Tick ==
    /\ now < MaxTime
    /\ phase = "idle" \/ (phase = "waiting" /\ now < began + Timeout)
    /\ now' = now + 1
    /\ UNCHANGED <<phase, request, asked, began, remaining, reply, obtained,
                   spent, network>>

ExchangeNext ==
    \/ \E imprint \in Imprint, bytes \in Draws : BuildRequest(imprint, bytes)
    \/ Proceed
    \/ Arrive
    \/ \E received \in sent, drift \in Drifts, well \in BOOLEAN :
           Issue(received, drift, well)
    \/ Tick

ExchangeSpec ==
    /\ ExchangeInit
    /\ [][ExchangeNext]_exchangeVars
    /\ WF_exchangeVars(Proceed)

-----------------------------------------------------------------------------
(***************************************************************************)
(* The exchange keeps the promise of module Acquisition: an answer to      *)
(* another request, to an earlier attempt of an earlier call or with an    *)
(* implausible genTime is never returned, however often the request is     *)
(* repeated and however late the authority answers.                        *)
(***************************************************************************)
Abstract == INSTANCE Acquisition WITH
    obtained <- IF obtained = None THEN None
                ELSE [imprint |-> obtained.imprint,
                      madeAt |-> obtained.madeAt,
                      genTime |-> obtained.genTime]

KeepsThePromise == Abstract!Promise

(***************************************************************************)
(* The nonce on the wire is the one that was drawn: read as DER reads an   *)
(* INTEGER, signed and big-endian, it has the value of the drawn bytes,    *)
(* and no shorter content has.                                             *)
(***************************************************************************)
ValueOf(bytes) ==
    LET value[n \in 0..Len(bytes)] ==
            IF n = 0 THEN 0 ELSE 2 * HalfByte * value[n - 1] + bytes[n]
    IN  value[Len(bytes)]

SignedValueOf(content) ==
    IF content[1] >= HalfByte
    THEN ValueOf(content) - (2 * HalfByte)^Len(content)
    ELSE ValueOf(content)

NonceIsFaithful ==
    phase # "idle" =>
        /\ SignedValueOf(nonce) = ValueOf(drawn)
        /\ Len(nonce) > 1 => ~(nonce[1] = 0 /\ nonce[2] < HalfByte)

(***************************************************************************)
(* A good answer is not refused: a token made for this request during the  *)
(* current attempt, by a clock no further off than the tolerance exceeds   *)
(* the timeout, passes the screening, however many attempts came before.   *)
(***************************************************************************)
Good(token) ==
    /\ token # None
    /\ token.well
    /\ token.imprint = wanted /\ token.nonce = nonce
    /\ token.madeAt >= began
    /\ (token.genTime - token.madeAt)
           \in (Timeout - MaxDivergence)..(MaxDivergence - Timeout)

GoodAnswersPass ==
    [][phase = "screening" /\ phase' = "idle" /\ Good(reply)
           => obtained' = reply]_exchangeVars

(***************************************************************************)
(* Every call ends, whatever the authority, the network and the signals    *)
(* do.                                                                     *)
(***************************************************************************)
ExchangeEnds == phase # "idle" ~> phase = "idle"
=============================================================================
