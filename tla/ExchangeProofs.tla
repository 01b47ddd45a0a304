--------------------------- MODULE ExchangeProofs ---------------------------
(***************************************************************************)
(* What is fetched over the network.  The exchange of module Exchange      *)
(* keeps the promise of Acquisition, for any width of nonces, retries,     *)
(* timeouts and clocks of the authority; and the CRLs of module Ltv follow *)
(* the chains, for any certificates, distribution points and editions.     *)
(***************************************************************************)
EXTENDS Exchange, Ltv, SequenceTheorems, WellFoundedInduction, TLAPS

\* What is true of some natural number is true of a least one.
LEMMA LeastNumber ==
    ASSUME NEW numbers \in SUBSET Nat, numbers # {}
    PROVE  \E least \in numbers : \A n \in numbers : least <= n
<1> DEFINE less == OpToRel(<, Nat)
<1>1. PICK least \in numbers : \A n \in numbers : <<n, least>> \notin less
    <2>1. IsWellFoundedOn(less, Nat)
        BY NatLessThanWellFounded
    <2> HIDE DEF less
    <2> QED
        BY <2>1, WFMin, Zenon
<1>2. less = {ss \in Nat \X Nat : ss[1] < ss[2]}
    BY Zenon DEF OpToRel
<1> HIDE DEF less
<1>3. ASSUME NEW n \in numbers
      PROVE  least <= n
    <2>1. <<n, least>> \in Nat \X Nat /\ <<n, least>> \notin less
        BY <1>1
    <2> QED
        BY <1>2, <2>1
<1> QED
    BY <1>1, <1>3

NonceBytes == [1..Width -> Byte]

-----------------------------------------------------------------------------
(***************************************************************************)
(* encode_nonce loses nothing, so that distinct nonces stay distinct.      *)
(***************************************************************************)
LEMMA HasStart ==
    ASSUME NEW bytes \in NonceBytes
    PROVE  \E k \in 1..Width : IsStart(bytes, k)
<1> DEFINE candidates == {k \in 1..Width : bytes[k] # 0 \/ k = Width}
<1>1. candidates # {} /\ candidates \subseteq Nat
    BY ExchangeAssumption
<1>2. PICK k \in candidates : \A j \in candidates : k <= j
    <2> HIDE DEF candidates
    <2> QED
        BY <1>1, LeastNumber
<1>3. \A j \in 1..(k - 1) : bytes[j] = 0
    BY <1>1, <1>2, ExchangeAssumption
<1> QED
    BY <1>2, <1>3 DEF IsStart

LEMMA SignificantBytes ==
    ASSUME NEW bytes \in NonceBytes
    PROVE  \E k \in 1..Width :
               /\ IsStart(bytes, k)
               /\ Significant(bytes) \in Seq(Byte)
               /\ Len(Significant(bytes)) = Width - k + 1
               /\ \A i \in 1..(Width - k + 1) :
                      Significant(bytes)[i] = bytes[k + i - 1]
<1> DEFINE start == CHOOSE k \in 1..Width : IsStart(bytes, k)
<1>1. start \in 1..Width /\ IsStart(bytes, start)
    BY HasStart
<1>2. Significant(bytes) = SubSeq(bytes, start, Width)
    BY DEF Significant
<1>3. \A i \in start..Width : bytes[i] \in Byte
    BY <1>1, ExchangeAssumption DEF NonceBytes
<1> HIDE DEF start
<1>4. /\ SubSeq(bytes, start, Width) \in Seq(Byte)
      /\ Len(SubSeq(bytes, start, Width)) = Width - start + 1
      /\ \A i \in 1..(Width - start + 1) :
             SubSeq(bytes, start, Width)[i] = bytes[start + i - 1]
    <2>1. /\ SubSeq(bytes, start, Width) \in Seq(Byte)
          /\ Len(SubSeq(bytes, start, Width)) =
                 IF start <= Width THEN Width - start + 1 ELSE 0
          /\ \A i \in 1..(Width - start + 1) :
                 SubSeq(bytes, start, Width)[i] = bytes[start + i - 1]
        BY <1>1, <1>3, SubSeqProperties, ExchangeAssumption
    <2> QED
        BY <1>1, <2>1, ExchangeAssumption
<1> QED
    BY <1>1, <1>2, <1>4

LEMMA EncodingType ==
    ASSUME NEW bytes \in NonceBytes
    PROVE  EncodeNonce(bytes) \in Nonce
<1>1. Significant(bytes) \in Seq(Byte)
    BY SignificantBytes
<1>2. <<0>> \in Seq(Byte)
    BY ExchangeAssumption DEF Byte
<1> QED
    BY <1>1, <1>2 DEF EncodeNonce, Nonce

LEMMA SignificantInjective ==
    ASSUME NEW a \in NonceBytes, NEW b \in NonceBytes,
           Significant(a) = Significant(b)
    PROVE  a = b
<1>1. PICK s \in 1..Width :
          /\ IsStart(a, s)
          /\ Len(Significant(a)) = Width - s + 1
          /\ \A i \in 1..(Width - s + 1) :
                 Significant(a)[i] = a[s + i - 1]
    BY SignificantBytes
<1>2. PICK t \in 1..Width :
          /\ IsStart(b, t)
          /\ Len(Significant(b)) = Width - t + 1
          /\ \A i \in 1..(Width - t + 1) :
                 Significant(b)[i] = b[t + i - 1]
    BY SignificantBytes
<1>3. s = t
    BY <1>1, <1>2, ExchangeAssumption
<1>4. ASSUME NEW k \in 1..Width
      PROVE  a[k] = b[k]
    <2>1. CASE k < s
        BY <2>1, <1>1, <1>2, <1>3, ExchangeAssumption DEF IsStart
    <2>2. CASE k >= s
        <3>1. k - s + 1 \in 1..(Width - s + 1) /\ s + (k - s + 1) - 1 = k
            BY <2>2, ExchangeAssumption
        <3> QED
            BY <3>1, <1>1, <1>2, <1>3
    <2> QED
        BY <2>1, <2>2, ExchangeAssumption
<1>5. a = [k \in 1..Width |-> a[k]] /\ b = [k \in 1..Width |-> b[k]]
    BY DEF NonceBytes
<1> QED
    BY <1>4, <1>5

LEMMA EncodingInjective ==
    ASSUME NEW a \in NonceBytes, NEW b \in NonceBytes,
           EncodeNonce(a) = EncodeNonce(b)
    PROVE  a = b
\* Padding adds a zero before a high byte, and a content of two bytes or
\* more starts with a zero only if it was padded.
<1>1. ASSUME NEW x \in NonceBytes, NEW y \in NonceBytes,
             Significant(x)[1] >= HalfByte, ~(Significant(y)[1] >= HalfByte)
      PROVE  EncodeNonce(x) # EncodeNonce(y)
    <2>1. PICK t \in 1..Width :
              /\ IsStart(y, t)
              /\ Significant(y) \in Seq(Byte)
              /\ Len(Significant(y)) = Width - t + 1
              /\ \A i \in 1..(Width - t + 1) :
                     Significant(y)[i] = y[t + i - 1]
        BY SignificantBytes
    <2>2. Significant(x) \in Seq(Byte) /\ Len(Significant(x)) >= 1
        <3>1. PICK k \in 1..Width : /\ Significant(x) \in Seq(Byte)
                                    /\ Len(Significant(x)) = Width - k + 1
            BY SignificantBytes
        <3>2. Width \in Nat
            BY ExchangeAssumption
        <3> QED
            BY <3>1, <3>2
    <2>3. EncodeNonce(x) = <<0>> \o Significant(x)
        BY <1>1 DEF EncodeNonce
    <2>4. EncodeNonce(x)[1] = 0 /\ Len(EncodeNonce(x)) >= 2
        BY <2>2, <2>3
    <2>5. EncodeNonce(y) = Significant(y)
        BY <1>1 DEF EncodeNonce
    <2>6. SUFFICES ASSUME EncodeNonce(x) = EncodeNonce(y)
                   PROVE  FALSE
        OBVIOUS
    <2>7. y[t] = 0
        BY <2>1, <2>4, <2>5, <2>6, ExchangeAssumption
    <2>8. t = Width
        BY <2>1, <2>7 DEF IsStart
    <2>9. Len(Significant(y)) = 1
        BY <2>1, <2>8, ExchangeAssumption
    <2> QED
        BY <2>4, <2>5, <2>6, <2>9
<1>2. CASE Significant(a)[1] >= HalfByte /\ Significant(b)[1] >= HalfByte
    <2>1. <<0>> \o Significant(a) = <<0>> \o Significant(b)
        BY <1>2 DEF EncodeNonce
    <2>2. Significant(a) \in Seq(Byte) /\ Significant(b) \in Seq(Byte)
        BY SignificantBytes
    <2>3. Significant(a) = Significant(b)
        BY <2>1, <2>2
    <2> QED
        BY <2>3, SignificantInjective
<1>3. CASE ~(Significant(a)[1] >= HalfByte) /\ ~(Significant(b)[1] >= HalfByte)
    BY <1>3, SignificantInjective DEF EncodeNonce
<1> QED
    BY <1>1, <1>2, <1>3
-----------------------------------------------------------------------------
(***************************************************************************)
(* The inductive invariant.  Whatever carries a nonce carries one that was *)
(* drawn; so a nonce drawn now is on no token made before, and a token     *)
(* with the nonce of the current call was made since it began.             *)
(***************************************************************************)
Drawn(encoded) == \E bytes \in spent : encoded = EncodeNonce(bytes)

Calling ==
    /\ phase = "idle" <=> wanted = None
    /\ phase = "screening" => reply \in issued \cup {None}
    /\ asked <= now

Traces ==
    /\ phase # "idle" => Drawn(nonce)
    /\ \A r \in sent : Drawn(r.nonce)
    /\ \A t \in issued : Drawn(t.nonce) /\ t.madeAt <= now

Fresh ==
    phase # "idle" => \A t \in issued : t.nonce = nonce => asked <= t.madeAt

ExchangeInv == ExchangeTypeOK /\ Calling /\ Traces /\ Fresh

LEMMA DrawsAreBytes == Draws \subseteq NonceBytes
    BY ExchangeAssumption DEF NonceBytes

LEMMA InitExchangeInv == ExchangeInit => ExchangeInv
<1> SUFFICES ASSUME ExchangeInit
             PROVE  ExchangeInv
    OBVIOUS
<1>1. ExchangeTypeOK
    BY ExchangeAssumption DEF ExchangeInit, ExchangeTypeOK, Nonce
<1> QED
    BY <1>1 DEF ExchangeInit, ExchangeInv, Calling, Traces, Fresh

LEMMA BuildRequestInv ==
    ASSUME ExchangeInv, NEW imprint \in Imprint, NEW bytes \in Draws,
           BuildRequest(imprint, bytes)
    PROVE  ExchangeInv'
<1> USE DEF BuildRequest, network
<1>1. ExchangeTypeOK'
    <2>1. EncodeNonce(bytes) \in Nonce
        BY EncodingType, DrawsAreBytes
    <2> QED
        BY <2>1, ExchangeAssumption DEF ExchangeInv, ExchangeTypeOK
<1>2. Calling'
    BY ExchangeAssumption DEF ExchangeInv, ExchangeTypeOK, Calling
<1>3. Traces'
    BY DEF ExchangeInv, Traces, Drawn
<1>4. Fresh'
    \* A token with this nonce would carry one that was drawn before.
    <2>1. ASSUME NEW t \in issued, t.nonce = EncodeNonce(bytes)
          PROVE  FALSE
        <3>1. PICK earlier \in spent : t.nonce = EncodeNonce(earlier)
            BY DEF ExchangeInv, Traces, Drawn
        <3>2. earlier \in NonceBytes /\ bytes \in NonceBytes
            BY <3>1, DrawsAreBytes DEF ExchangeInv, ExchangeTypeOK
        <3>3. earlier = bytes
            BY <2>1, <3>1, <3>2, EncodingInjective
        <3> QED
            BY <3>1, <3>3
    <2> QED
        BY <2>1 DEF Fresh
<1> QED
    BY <1>1, <1>2, <1>3, <1>4 DEF ExchangeInv

\* Steps of a call that make no request and no token.
LEMMA ProceedInv ==
    ASSUME ExchangeInv, Proceed
    PROVE  ExchangeInv'
<1> USE DEF request, network
<1>1. CASE SendRequest
    BY <1>1 DEF SendRequest, ExchangeInv, ExchangeTypeOK, Calling, Traces,
                Fresh, Drawn
<1>2. CASE Interrupted
    BY <1>2, ExchangeAssumption
    DEF Interrupted, ExchangeInv, ExchangeTypeOK, Calling, Traces, Fresh,
        Drawn
<1>3. ASSUME NEW answer \in issued \cup {None}, Answered(answer)
      PROVE  ExchangeInv'
    BY <1>3 DEF Answered, ExchangeInv, ExchangeTypeOK, Calling, Traces,
                Fresh, Drawn
<1>4. CASE Return /\ (UNCHANGED obtained \/ obtained' = reply)
    <2>1. <<>> \in Nonce
        BY DEF Nonce
    <2> QED
        BY <1>4, <2>1, ExchangeAssumption
        DEF Return, ExchangeInv, ExchangeTypeOK, Calling, Traces, Fresh,
            Drawn
<1> QED
    BY <1>1, <1>2, <1>3, <1>4
    DEF Proceed, ExchangeFails, Accept, Refuse

LEMMA NetworkInv ==
    ASSUME ExchangeInv, \/ Arrive
                        \/ \E received \in sent, drift \in Drifts,
                              well \in BOOLEAN : Issue(received, drift, well)
    PROVE  ExchangeInv'
<1> USE DEF request
<1>1. CASE Arrive
    <2>1. wanted \in Imprint
        BY <1>1 DEF Arrive, ExchangeInv, ExchangeTypeOK, Calling
    <2> QED
        BY <1>1, <2>1
        DEF Arrive, ExchangeInv, ExchangeTypeOK, Request, Calling, Traces,
            Fresh, Drawn
<1>2. ASSUME NEW received \in sent, NEW drift \in Drifts,
             NEW well \in BOOLEAN, Issue(received, drift, well)
      PROVE  ExchangeInv'
    <2> DEFINE made == [imprint |-> received.imprint,
                        nonce |-> received.nonce, genTime |-> now + drift,
                        madeAt |-> now, well |-> well]
    <2>1. made \in Token
        BY ExchangeAssumption
        DEF ExchangeInv, ExchangeTypeOK, Request, Token
    <2>2. issued' = issued \cup {made}
        BY <1>2 DEF Issue
    <2>3. UNCHANGED <<now, phase, request, asked, began, remaining, reply,
                      obtained, spent, sent>>
        BY <1>2 DEF Issue
    <2>4. /\ made.nonce = received.nonce
          /\ made.madeAt = now
        OBVIOUS
    <2> HIDE DEF made
    <2>5. ExchangeTypeOK'
        BY <2>1, <2>2, <2>3 DEF ExchangeInv, ExchangeTypeOK
    <2>6. Calling'
        BY <2>2, <2>3 DEF ExchangeInv, Calling
    <2>7. Traces'
        BY <2>2, <2>3, <2>4
        DEF ExchangeInv, ExchangeTypeOK, Traces, Drawn
    <2>8. Fresh'
        BY <2>2, <2>3, <2>4 DEF ExchangeInv, Calling, Fresh
    <2> QED
        BY <2>5, <2>6, <2>7, <2>8 DEF ExchangeInv
<1> QED
    BY <1>1, <1>2

LEMMA StepExchangeInv ==
    ExchangeInv /\ [ExchangeNext]_exchangeVars => ExchangeInv'
<1> SUFFICES ASSUME ExchangeInv, [ExchangeNext]_exchangeVars
             PROVE  ExchangeInv'
    OBVIOUS
<1>1. CASE Tick
    <2>1. asked \in Nat /\ now \in Nat /\ \A t \in issued : t.madeAt \in Nat
        BY DEF ExchangeInv, ExchangeTypeOK, Token
    <2> QED
        BY <1>1, <2>1
        DEF Tick, request, network, ExchangeInv, ExchangeTypeOK, Calling,
            Traces, Fresh, Drawn
<1>2. CASE UNCHANGED exchangeVars
    BY <1>2 DEF exchangeVars, request, network, ExchangeInv, ExchangeTypeOK,
                Calling, Traces, Fresh, Drawn
<1> QED
    BY <1>1, <1>2, BuildRequestInv, ProceedInv, NetworkInv DEF ExchangeNext

-----------------------------------------------------------------------------
\* Every step of the exchange is a step of Acquisition or a stutter.
LEMMA StepRefines ==
    ASSUME ExchangeInv, [ExchangeNext]_exchangeVars
    PROVE  [Abstract!Acquire]_(Abstract!acquisitionVars)
<1> USE DEF request, network, Abstract!acquisitionVars
<1>1. ASSUME NEW imprint \in Imprint, NEW bytes \in Draws,
             BuildRequest(imprint, bytes)
      PROVE  Abstract!Ask(imprint)
    BY <1>1 DEF BuildRequest, ExchangeInv, Calling, Abstract!Ask
<1>2. CASE Accept
    <2>1. /\ reply \in issued /\ reply \in Token
          /\ reply.imprint = wanted /\ reply.nonce = nonce
          /\ wanted # None /\ phase # "idle"
          /\ (reply.genTime - now) \in -MaxDivergence..MaxDivergence
        BY <1>2
        DEF Accept, Acceptable, MatchesRequest, MatchesImprint, Plausible,
            LocalTime,
            ExchangeInv, ExchangeTypeOK, Calling
    <2>2. reply.madeAt \in asked..now
        BY <2>1 DEF ExchangeInv, ExchangeTypeOK, Traces, Fresh, Token
    <2>3. reply.genTime \in (now - MaxDivergence)..(now + MaxDivergence)
        BY <2>1, ExchangeAssumption DEF ExchangeInv, ExchangeTypeOK, Token
    <2>4. Abstract!Grant(reply.madeAt, reply.genTime)
        BY <1>2, <2>1 DEF Accept, Acceptable, Return, Abstract!Grant
    <2> QED
        BY <2>2, <2>3, <2>4 DEF Abstract!Acquire
<1>3. CASE Return /\ UNCHANGED obtained /\ phase # "idle"
    BY <1>3 DEF Return, ExchangeInv, Calling, Abstract!Acquire, Abstract!Deny
<1>4. CASE Tick
    BY <1>4 DEF Tick, Abstract!Acquire, Abstract!TimePasses
<1>5. CASE \/ SendRequest \/ Interrupted
           \/ \E answer \in issued \cup {None} : Answered(answer)
           \/ Arrive
           \/ \E received \in sent, drift \in Drifts, well \in BOOLEAN :
                  Issue(received, drift, well)
    BY <1>5 DEF SendRequest, Interrupted, Answered, Arrive, Issue
<1>6. CASE UNCHANGED exchangeVars
    BY <1>6 DEF exchangeVars
<1> QED
    BY <1>1, <1>2, <1>3, <1>4, <1>5, <1>6
    DEF ExchangeNext, Proceed, ExchangeFails, Refuse, Abstract!Acquire

(***************************************************************************)
(* The exchange keeps the promise: every behaviour of acquire_token over   *)
(* the retrying transport is one of Acquisition, for every width of nonces *)
(* (encode_nonce being injective), retry bound, timeout and tolerance.     *)
(***************************************************************************)
THEOREM ExchangeKeepsThePromise == ExchangeSpec => KeepsThePromise
<1>1. ExchangeInit => ExchangeInv
    BY InitExchangeInv
<1>2. ExchangeInv /\ [ExchangeNext]_exchangeVars => ExchangeInv'
    BY StepExchangeInv
<1>3. ExchangeInit => Abstract!Begin
    BY DEF ExchangeInit, Abstract!Begin
<1>4. ExchangeInv /\ [ExchangeNext]_exchangeVars
          => [Abstract!Acquire]_(Abstract!acquisitionVars)
    BY StepRefines
<1> QED
    BY <1>1, <1>2, <1>3, <1>4, PTL
    DEF ExchangeSpec, KeepsThePromise, Abstract!Promise

-----------------------------------------------------------------------------
(***************************************************************************)
(* Only the current attempt counts against the clock: it is screened no    *)
(* later than its own timeout, whatever the attempts before it took.       *)
(***************************************************************************)
Patient ==
    phase \in {"waiting", "screening"} => now <= began + Timeout

LEMMA StepPatient ==
    ASSUME ExchangeInv, Patient, [ExchangeNext]_exchangeVars
    PROVE  Patient'
<1> USE DEF request, network, Patient
<1>1. now \in Nat /\ began \in Nat /\ Timeout \in Nat
    BY ExchangeAssumption DEF ExchangeInv, ExchangeTypeOK
<1>2. CASE SendRequest
    BY <1>1, <1>2 DEF SendRequest
<1>3. CASE Tick
    BY <1>1, <1>3 DEF Tick
<1>4. ASSUME NEW answer \in issued \cup {None}, Answered(answer)
      PROVE  Patient'
    BY <1>4 DEF Answered
<1>5. CASE \/ Interrupted
           \/ Return
           \/ \E imprint \in Imprint, bytes \in Draws :
                  BuildRequest(imprint, bytes)
    BY <1>5 DEF Interrupted, Return, BuildRequest
<1>6. CASE \/ Arrive
           \/ \E received \in sent, drift \in Drifts, well \in BOOLEAN :
                  Issue(received, drift, well)
           \/ UNCHANGED exchangeVars
    BY <1>6 DEF Arrive, Issue, exchangeVars
<1> QED
    BY <1>2, <1>3, <1>4, <1>5, <1>6
    DEF ExchangeNext, Proceed, ExchangeFails, Accept, Refuse

\* An answer made during the attempt is screened at most a timeout later.
LEMMA GoodIsAcceptable ==
    ASSUME ExchangeInv, Patient, phase = "screening", Good(reply)
    PROVE  Acceptable(reply)
<1>1. reply \in issued /\ reply \in Token
    BY DEF Good, ExchangeInv, ExchangeTypeOK, Calling
<1>2. /\ now \in Nat /\ began \in Nat
      /\ reply.madeAt \in Nat /\ reply.genTime \in Int
      /\ Timeout \in Nat /\ MaxDivergence \in Nat
    BY <1>1, ExchangeAssumption DEF ExchangeInv, ExchangeTypeOK, Token
<1>3. (now - reply.madeAt) \in 0..Timeout
    <2>1. began <= reply.madeAt /\ reply.madeAt <= now
        BY <1>1 DEF Good, ExchangeInv, Traces
    <2>2. now <= began + Timeout
        BY DEF Patient
    <2> QED
        BY <1>2, <2>1, <2>2
<1>4. (reply.genTime - now) \in -MaxDivergence..MaxDivergence
    BY <1>2, <1>3 DEF Good
<1> QED
    BY <1>4 DEF Good, Acceptable, MatchesRequest, MatchesImprint, Plausible,
                LocalTime

\* Screening ends in acceptance or refusal, and refuses nothing acceptable.
LEMMA GoodIsTaken ==
    ASSUME ExchangeInv, Patient, [ExchangeNext]_exchangeVars,
           phase = "screening", phase' = "idle", Good(reply)
    PROVE  obtained' = reply
<1>1. CASE Accept
    BY <1>1 DEF Accept
<1>2. CASE Refuse
    BY <1>2, GoodIsAcceptable DEF Refuse
<1>3. Accept \/ Refuse
    BY DEF ExchangeNext, Proceed, BuildRequest, SendRequest, Interrupted,
           Answered, ExchangeFails, Arrive, Issue, Tick, exchangeVars
<1> QED
    BY <1>1, <1>2, <1>3

(***************************************************************************)
(* A good answer is not refused: what the authority made during the        *)
(* current attempt, by a clock no further off than the tolerance exceeds   *)
(* the timeout, passes accept_response, for every timeout, tolerance and   *)
(* retry bound.  It rests on the clock being read when the answer is       *)
(* screened and on the timeout bounding each attempt of its own.           *)
(***************************************************************************)
THEOREM GoodAnswersAreTaken == ExchangeSpec => GoodAnswersPass
<1>1. ExchangeInit => ExchangeInv /\ Patient
    BY InitExchangeInv DEF ExchangeInit, Patient
<1>2. ExchangeInv /\ Patient /\ [ExchangeNext]_exchangeVars
          => (ExchangeInv /\ Patient)'
    BY StepExchangeInv, StepPatient
<1>3. ExchangeInv /\ Patient /\ [ExchangeNext]_exchangeVars
          => [phase = "screening" /\ phase' = "idle" /\ Good(reply)
                  => obtained' = reply]_exchangeVars
    BY GoodIsTaken
<1> QED
    BY <1>1, <1>2, <1>3, PTL DEF ExchangeSpec, GoodAnswersPass

-----------------------------------------------------------------------------
\* The running value of the first m bytes, which ValueOf ends with.
Base == 2 * HalfByte

Evaluates(v, bytes, m) ==
    /\ v = [n \in 0..m |-> v[n]]
    /\ v[0] = 0
    /\ \A n \in 0..m : v[n] \in Nat
    /\ \A n \in 1..m : v[n] = Base * v[n - 1] + bytes[n]

LEMMA BaseType == Base \in Nat /\ \A a, b \in Nat : Base * a + b \in Nat
<1>1. HalfByte \in Nat
    BY ExchangeAssumption
<1>2. Base \in Nat
    BY <1>1 DEF Base
<1> QED
    BY <1>2

LEMMA EvaluatesOneMore ==
    ASSUME NEW bytes \in Seq(Byte), NEW m \in Nat, m < Len(bytes),
           NEW v, Evaluates(v, bytes, m)
    PROVE  \E w : Evaluates(w, bytes, m + 1)
<1>1. PICK w : w = [n \in 0..(m + 1) |->
                       IF n = m + 1 THEN Base * v[m] + bytes[m + 1]
                       ELSE v[n]]
    OBVIOUS
<1>2. bytes[m + 1] \in Nat
    <2>1. m + 1 \in 1..Len(bytes)
        OBVIOUS
    <2>2. bytes[m + 1] \in Byte
        BY <2>1
    <2> QED
        BY <2>2, ExchangeAssumption DEF Byte
<1>3. \A n \in 0..m : n # m + 1 /\ n \in 0..(m + 1) /\ w[n] = v[n]
    BY <1>1
<1>4. w[m + 1] = Base * v[m] + bytes[m + 1]
    BY <1>1
<1>5. m \in 0..m /\ v[m] \in Nat /\ w[m] = v[m]
    BY <1>3 DEF Evaluates
<1>6. w = [n \in 0..(m + 1) |-> w[n]]
    BY <1>1
<1>7. w[0] = 0
    BY <1>3 DEF Evaluates
<1>8. ASSUME NEW n \in 0..(m + 1)
      PROVE  w[n] \in Nat
    <2>1. CASE n = m + 1
        BY <1>2, <1>4, <1>5, <2>1, BaseType
    <2>2. CASE n # m + 1
        <3>1. n \in 0..m
            BY <2>2
        <3> QED
            BY <1>3, <3>1 DEF Evaluates
    <2> QED
        BY <2>1, <2>2
<1>9. ASSUME NEW n \in 1..(m + 1)
      PROVE  w[n] = Base * w[n - 1] + bytes[n]
    <2>1. CASE n = m + 1
        <3>1. n - 1 = m
            BY <2>1
        <3> QED
            BY <1>4, <1>5, <2>1, <3>1
    <2>2. CASE n # m + 1
        <3>1. n \in 1..m /\ n \in 0..m /\ n - 1 \in 0..m
            BY <2>2
        <3>2. v[n] = Base * v[n - 1] + bytes[n]
            BY <3>1 DEF Evaluates
        <3> QED
            BY <1>3, <3>1, <3>2
    <2> QED
        BY <2>1, <2>2
<1> QED
    BY <1>6, <1>7, <1>8, <1>9 DEF Evaluates

LEMMA EveryPrefixEvaluates ==
    ASSUME NEW bytes \in Seq(Byte), NEW m \in 0..Len(bytes)
    PROVE  \E v : Evaluates(v, bytes, m)
<1> DEFINE missing == {n \in 0..Len(bytes) : ~\E v : Evaluates(v, bytes, n)}
<1>1. SUFFICES ASSUME missing # {}
               PROVE  FALSE
    OBVIOUS
<1>2. missing \subseteq Nat
    OBVIOUS
<1>3. PICK least \in missing : \A n \in missing : least <= n
    <2> HIDE DEF missing
    <2> QED
        BY <1>1, <1>2, LeastNumber
<1>4. least \in 0..Len(bytes) /\ ~\E v : Evaluates(v, bytes, least)
    BY <1>3
<1>5. least # 0
    <2>1. Evaluates([n \in 0..0 |-> 0], bytes, 0)
        BY DEF Evaluates
    <2> QED
        BY <1>4, <2>1
<1>6. /\ least - 1 \in Nat /\ least - 1 \in 0..Len(bytes)
      /\ least - 1 < Len(bytes) /\ (least - 1) + 1 = least
    BY <1>4, <1>5
<1>7. least - 1 \notin missing
    BY <1>3, <1>6
<1>8. PICK v : Evaluates(v, bytes, least - 1)
    BY <1>6, <1>7
<1> QED
    BY <1>4, <1>6, <1>8, EvaluatesOneMore

LEMMA ValueIsEvaluated ==
    ASSUME NEW bytes \in Seq(Byte)
    PROVE  \E v : /\ Evaluates(v, bytes, Len(bytes))
                  /\ ValueOf(bytes) = v[Len(bytes)]
<1>1. Len(bytes) \in Nat /\ Len(bytes) \in 0..Len(bytes)
    OBVIOUS
<1> DEFINE Running(v) ==
        [n \in 0..Len(bytes) |->
            IF n = 0 THEN 0 ELSE 2 * HalfByte * v[n - 1] + bytes[n]]
<1> DEFINE value == CHOOSE v : v = Running(v)
<1>2. ValueOf(bytes) = value[Len(bytes)]
    BY DEF ValueOf
<1>3. PICK some : Evaluates(some, bytes, Len(bytes))
    BY <1>1, EveryPrefixEvaluates
<1>4. some = Running(some)
    <2>1. \A n \in 0..Len(bytes) : n # 0 => n \in 1..Len(bytes)
        BY <1>1
    <2>2. \A n \in 0..Len(bytes) :
              some[n] = IF n = 0 THEN 0
                        ELSE 2 * HalfByte * some[n - 1] + bytes[n]
        BY <1>3, <2>1 DEF Evaluates, Base
    <2>3. some = [n \in 0..Len(bytes) |-> some[n]]
        BY <1>3 DEF Evaluates
    <2> QED
        BY <2>2, <2>3
<1>5. value = Running(value)
    BY <1>4
<1> HIDE DEF value
<1>6. /\ DOMAIN value = 0..Len(bytes)
      /\ value = [n \in 0..Len(bytes) |-> value[n]]
    BY <1>5
<1>7. \A n \in 0..Len(bytes) :
          value[n] = IF n = 0 THEN 0
                     ELSE 2 * HalfByte * value[n - 1] + bytes[n]
    BY <1>5
\* Whatever satisfies the equation is the value found above.
<1>8. ASSUME NEW n \in 0..Len(bytes)
      PROVE  value[n] = some[n]
    <2> DEFINE differing == {i \in 0..Len(bytes) : value[i] # some[i]}
    <2>1. SUFFICES ASSUME differing # {}
                   PROVE  FALSE
        OBVIOUS
    <2>2. differing \subseteq Nat
        OBVIOUS
    <2>3. PICK least \in differing : \A i \in differing : least <= i
        <3> HIDE DEF differing
        <3> QED
            BY <2>1, <2>2, LeastNumber
    <2>4. least \in 0..Len(bytes) /\ value[least] # some[least]
        BY <2>3
    <2>5. least # 0
        <3>1. 0 \in 0..Len(bytes)
            BY <1>1
        <3> QED
            BY <1>3, <1>7, <2>4, <3>1 DEF Evaluates
    <2>6. /\ least \in 1..Len(bytes) /\ least - 1 \in 0..Len(bytes)
          /\ ~(least <= least - 1)
        BY <1>1, <2>4, <2>5
    <2>7. value[least - 1] = some[least - 1]
        BY <2>3, <2>6
    <2>8. some[least] = Base * some[least - 1] + bytes[least]
        BY <1>3, <2>6 DEF Evaluates
    <2> QED
        BY <1>7, <2>4, <2>5, <2>7, <2>8 DEF Base
<1> QED
    BY <1>1, <1>2, <1>3, <1>8

-----------------------------------------------------------------------------
(***************************************************************************)
(* Leading zeros have no value, so that leaving them out, or adding one,   *)
(* changes none.                                                           *)
(***************************************************************************)
LEMMA LeadingZeros ==
    ASSUME NEW long \in Seq(Byte), NEW short \in Seq(Byte), NEW d \in Nat,
           Len(long) = Len(short) + d,
           \A i \in 1..d : long[i] = 0,
           \A i \in 1..Len(short) : long[d + i] = short[i]
    PROVE  ValueOf(long) = ValueOf(short)
<1>1. PICK length \in Nat : length = Len(short)
    OBVIOUS
<1>2. PICK v : Evaluates(v, long, length + d) /\ ValueOf(long) = v[length + d]
    BY <1>1, ValueIsEvaluated
<1>3. PICK w : Evaluates(w, short, length) /\ ValueOf(short) = w[length]
    BY <1>1, ValueIsEvaluated
<1>4. ASSUME NEW n \in 0..d
      PROVE  v[n] = 0
    <2> DEFINE wrong == {i \in 0..d : v[i] # 0}
    <2>1. SUFFICES ASSUME wrong # {}
                   PROVE  FALSE
        OBVIOUS
    <2>2. wrong \subseteq Nat
        OBVIOUS
    <2>3. PICK least \in wrong : \A i \in wrong : least <= i
        <3> HIDE DEF wrong
        <3> QED
            BY <2>1, <2>2, LeastNumber
    <2>4. least \in 0..d /\ v[least] # 0 /\ v[0] = 0
        BY <1>2, <2>3 DEF Evaluates
    <2>5. /\ least \in 1..d /\ least - 1 \in 0..d /\ ~(least <= least - 1)
          /\ least \in 1..(length + d)
        BY <2>4
    <2>6. v[least - 1] = 0
        BY <2>3, <2>5
    <2>7. v[least] = Base * v[least - 1] + long[least] /\ long[least] = 0
        BY <1>2, <2>5 DEF Evaluates
    <2>8. Base * 0 + 0 = 0
        BY BaseType
    <2> QED
        BY <2>4, <2>6, <2>7, <2>8
<1>5. ASSUME NEW n \in 0..length
      PROVE  v[d + n] = w[n]
    <2> DEFINE wrong == {i \in 0..length : v[d + i] # w[i]}
    <2>1. SUFFICES ASSUME wrong # {}
                   PROVE  FALSE
        OBVIOUS
    <2>2. wrong \subseteq Nat
        OBVIOUS
    <2>3. PICK least \in wrong : \A i \in wrong : least <= i
        <3> HIDE DEF wrong
        <3> QED
            BY <2>1, <2>2, LeastNumber
    <2>4. least \in 0..length /\ v[d + least] # w[least]
        BY <2>3
    <2>5. least # 0
        <3>1. d \in 0..d /\ d + 0 = d
            OBVIOUS
        <3>2. w[0] = 0
            BY <1>3 DEF Evaluates
        <3> QED
            BY <1>4, <2>4, <3>1, <3>2
    <2>6. /\ least \in 1..length /\ least - 1 \in 0..length
          /\ ~(least <= least - 1)
          /\ d + least \in 1..(length + d) /\ (d + least) - 1 = d + (least - 1)
        BY <2>4, <2>5
    <2>7. v[d + (least - 1)] = w[least - 1]
        BY <2>3, <2>6
    <2>8. v[d + least] = Base * v[d + (least - 1)] + long[d + least]
        <3>1. v[d + least] = Base * v[(d + least) - 1] + long[d + least]
            BY <1>2, <2>6 DEF Evaluates
        <3> QED
            BY <2>6, <3>1
    <2>9. w[least] = Base * w[least - 1] + short[least]
        BY <1>3, <2>6 DEF Evaluates
    <2>10. long[d + least] = short[least]
        BY <1>1, <2>6
    <2> QED
        BY <2>4, <2>7, <2>8, <2>9, <2>10
<1>6. length \in 0..length /\ length + d = d + length
    OBVIOUS
<1> QED
    BY <1>2, <1>3, <1>5, <1>6

LEMMA SignificantKeepsTheValue ==
    ASSUME NEW bytes \in NonceBytes
    PROVE  /\ bytes \in Seq(Byte)
           /\ ValueOf(Significant(bytes)) = ValueOf(bytes)
<1>1. PICK k \in 1..Width :
          /\ IsStart(bytes, k)
          /\ Significant(bytes) \in Seq(Byte)
          /\ Len(Significant(bytes)) = Width - k + 1
          /\ \A i \in 1..(Width - k + 1) :
                 Significant(bytes)[i] = bytes[k + i - 1]
    BY SignificantBytes
<1>2. Width \in Nat
    BY ExchangeAssumption
<1>3. bytes \in Seq(Byte) /\ Len(bytes) = Width
    BY <1>2 DEF NonceBytes
<1>4. PICK short \in Seq(Byte) : short = Significant(bytes)
    BY <1>1
<1>5. /\ k - 1 \in Nat
      /\ Len(short) = Width - k + 1
      /\ Len(bytes) = Len(short) + (k - 1)
    BY <1>1, <1>2, <1>3, <1>4
<1>6. \A i \in 1..(k - 1) : bytes[i] = 0
    BY <1>1 DEF IsStart
<1>7. ASSUME NEW i \in 1..Len(short)
      PROVE  bytes[(k - 1) + i] = short[i]
    <2>1. i \in 1..(Width - k + 1) /\ (k - 1) + i = k + i - 1
        BY <1>2, <1>5
    <2> QED
        BY <1>1, <1>4, <2>1
<1>8. ValueOf(bytes) = ValueOf(short)
    BY <1>3, <1>5, <1>6, <1>7, LeadingZeros
<1> QED
    BY <1>3, <1>4, <1>8

LEMMA PaddingKeepsTheValue ==
    ASSUME NEW bytes \in Seq(Byte)
    PROVE  ValueOf(<<0>> \o bytes) = ValueOf(bytes)
<1>1. PICK padded : padded = <<0>> \o bytes
    OBVIOUS
<1>2. 0 \in Byte
    BY ExchangeAssumption DEF Byte
<1>3. /\ padded \in Seq(Byte) /\ Len(padded) = Len(bytes) + 1
      /\ padded[1] = 0
      /\ \A i \in 1..Len(bytes) : padded[1 + i] = bytes[i]
    BY <1>1, <1>2
<1>4. \A i \in 1..1 : padded[i] = 0
    BY <1>3
<1>5. ValueOf(padded) = ValueOf(bytes)
    BY <1>3, <1>4, LeadingZeros
<1> QED
    BY <1>1, <1>5

\* encode_nonce writes the drawn value, as briefly as a signed one can be.
LEMMA EncodingIsFaithful ==
    ASSUME NEW bytes \in NonceBytes
    PROVE  LET content == EncodeNonce(bytes)
           IN  /\ SignedValueOf(content) = ValueOf(bytes)
               /\ Len(content) > 1
                      => ~(content[1] = 0 /\ content[2] < HalfByte)
<1>1. PICK k \in 1..Width :
          /\ IsStart(bytes, k)
          /\ Significant(bytes) \in Seq(Byte)
          /\ Len(Significant(bytes)) = Width - k + 1
          /\ \A i \in 1..(Width - k + 1) :
                 Significant(bytes)[i] = bytes[k + i - 1]
    BY SignificantBytes
<1>2. Width \in Nat \ {0} /\ HalfByte \in Nat \ {0}
    BY ExchangeAssumption
<1>3. PICK short \in Seq(Byte) : short = Significant(bytes)
    BY <1>1
<1>4. /\ Len(short) = Width - k + 1
      /\ 1 \in 1..Len(short)
      /\ short[1] = bytes[k]
      /\ short[1] \in Nat
    <2>1. Len(short) = Width - k + 1 /\ 1 \in 1..(Width - k + 1)
        BY <1>1, <1>2, <1>3
    <2>2. short[1] = bytes[k + 1 - 1] /\ k + 1 - 1 = k
        BY <1>1, <1>3, <2>1
    <2>3. short[1] \in Byte
        BY <2>1
    <2> QED
        BY <1>2, <2>1, <2>2, <2>3 DEF Byte
<1>5. ValueOf(short) = ValueOf(bytes)
    BY <1>3, SignificantKeepsTheValue
<1>6. PICK content : content = EncodeNonce(bytes)
    OBVIOUS
<1>7. CASE short[1] >= HalfByte
    <2>1. content = <<0>> \o short
        BY <1>3, <1>6, <1>7 DEF EncodeNonce
    <2>2. /\ content[1] = 0 /\ content[2] = short[1]
        BY <1>4, <2>1
    <2>3. ValueOf(content) = ValueOf(bytes)
        BY <1>5, <2>1, PaddingKeepsTheValue
    <2>4. SignedValueOf(content) = ValueOf(content)
        BY <1>2, <2>2 DEF SignedValueOf
    <2> QED
        BY <1>2, <1>4, <1>6, <1>7, <2>2, <2>3, <2>4
<1>8. CASE ~(short[1] >= HalfByte)
    <2>1. content = short
        BY <1>3, <1>6, <1>8 DEF EncodeNonce
    <2>2. SignedValueOf(content) = ValueOf(bytes)
        BY <1>5, <1>8, <2>1 DEF SignedValueOf
    <2>3. ASSUME content[1] = 0
          PROVE  Len(content) = 1
        <3>1. bytes[k] = 0
            BY <1>4, <2>1, <2>3
        <3>2. k = Width
            BY <1>1, <3>1 DEF IsStart
        <3> QED
            BY <1>2, <1>4, <2>1, <3>2
    <2> QED
        BY <1>6, <2>2, <2>3
<1> QED
    BY <1>7, <1>8

-----------------------------------------------------------------------------
(***************************************************************************)
(* The inductive invariant: a call that has begun carries the encoding of  *)
(* the bytes it drew until it returns.                                     *)
(***************************************************************************)
Carried ==
    phase # "idle" => drawn \in Draws /\ nonce = EncodeNonce(drawn)

LEMMA StepCarried ==
    ASSUME Carried, [ExchangeNext]_exchangeVars
    PROVE  Carried'
<1> USE DEF request, network, Carried
<1>1. ASSUME NEW imprint \in Imprint, NEW bytes \in Draws,
             BuildRequest(imprint, bytes)
      PROVE  Carried'
    BY <1>1 DEF BuildRequest
<1>2. CASE Return
    BY <1>2 DEF Return
<1>3. CASE \/ SendRequest \/ Interrupted
           \/ \E answer \in issued \cup {None} : Answered(answer)
    BY <1>3 DEF SendRequest, Interrupted, Answered
<1>4. CASE \/ Arrive
           \/ \E received \in sent, drift \in Drifts, well \in BOOLEAN :
                  Issue(received, drift, well)
           \/ Tick
           \/ UNCHANGED exchangeVars
    BY <1>4 DEF Arrive, Issue, Tick, exchangeVars
<1> QED
    BY <1>1, <1>2, <1>3, <1>4
    DEF ExchangeNext, Proceed, ExchangeFails, Accept, Refuse

(***************************************************************************)
(* The nonce of a call is the number that was drawn, in the shortest form  *)
(* DER allows, for every width and every draw: the leading zeros that      *)
(* encode_nonce leaves out and the sign byte it adds change no value.      *)
(***************************************************************************)
THEOREM NonceSaysWhatWasDrawn == ExchangeSpec => []NonceIsFaithful
<1>1. ExchangeInit => Carried
    BY DEF ExchangeInit, Carried
<1>2. Carried /\ [ExchangeNext]_exchangeVars => Carried'
    BY StepCarried
<1>3. Carried => NonceIsFaithful
    <2> SUFFICES ASSUME Carried, phase # "idle"
                 PROVE  /\ SignedValueOf(nonce) = ValueOf(drawn)
                        /\ Len(nonce) > 1
                               => ~(nonce[1] = 0 /\ nonce[2] < HalfByte)
        BY DEF NonceIsFaithful
    <2>1. drawn \in NonceBytes /\ nonce = EncodeNonce(drawn)
        BY DrawsAreBytes DEF Carried
    <2> QED
        BY <2>1, EncodingIsFaithful
<1> QED
    BY <1>1, <1>2, <1>3, PTL DEF ExchangeSpec

-----------------------------------------------------------------------------
(***************************************************************************)
(* The LTV records of a stamp.  What a refresh or a harvest has brought is *)
(* followed from the response of a distribution point to the file that is  *)
(* sealed, through every list it waits in on the way.                      *)
(***************************************************************************)
\* A certificate that advertises a CRL has one of an issuer it may be had of.
Met(c, crls) ==
    c.extension # "absent" =>
        \E u \in Range(c.points) \cap Uri :
            \E crl \in crls : crl.issuer = Publishes[u]

Report    == [signer : Name, chain : Seq(Certificate)]
Gathering == [signer : Name, chain : Seq(Certificate), crls : Seq(Crl)]
Files     == [chains : Chains, crls : Crls]

Collecting == stage \in {"certificates", "uris"}

\* The records of the working tree are being refreshed.
InRefresh == stage = "records" \/ (Collecting /\ pending # {})

Typed ==
    /\ disk \in Files /\ tree \in Files
    /\ stage \in {"idle", "records", "certificates", "uris", "sites",
                  "settle", "settleCrls", "sealed"}
    /\ pending \subseteq Name
    /\ left \in Seq(Certificate)
    /\ fetched \in Seq(Crl)
    /\ reported \in [chains : SUBSET Report, crls : Seq(Crl)]
    /\ harvests \in Seq(Gathering)
    /\ edition \in [Name -> Nat]
    /\ served \subseteq Crl
    /\ settled \subseteq Name
    /\ Collecting => source \in Report

\* What each stage has left behind.
Cleared ==
    /\ stage \notin {"certificates", "uris", "settleCrls"} => fetched = <<>>
    /\ stage = "idle" => reported = NoReport
    /\ stage = "idle" \/ InRefresh => harvests = <<>>
    /\ stage \notin {"records", "certificates", "uris"} => pending = {}
    /\ Collecting => Refreshing \/ pending = {}
    /\ \A i \in pending : disk.chains[i] # NoFile
    /\ stage \in {"records", "certificates", "uris", "sites"} => settled = {}

\* No CRL is of an edition to come, and all are of this stamp.
Dated ==
    /\ \A crl \in served : crl.edition <= edition[crl.issuer]
    /\ Range(fetched) \subseteq served
    /\ Range(reported.crls) \subseteq served
    /\ \A h \in Range(harvests) : Range(h.crls) \subseteq served

\* How far the chain has been followed that is collected now.
Followed ==
    /\ Collecting =>
           \A c \in Range(source.chain) :
               \/ c \in Range(left)
               \/ Met(c, Range(fetched))
               \/ pending # {} /\ Met(c, Range(reported.crls))
    /\ stage = "uris" =>
           left # <<>> /\ uris # {} /\ uris \subseteq DistributionUris(left[1])
    /\ \A h \in Range(harvests) :
           \A c \in Range(h.chain) : Met(c, Range(h.crls))

\* During the refresh the working tree has what was reported last.
Reported ==
    InRefresh =>
        /\ \A k \in DOMAIN reported.crls :
               (\A m \in DOMAIN reported.crls :
                    m > k => reported.crls[m].issuer
                                 # reported.crls[k].issuer)
               => disk.crls[reported.crls[k].issuer] = reported.crls[k]
        /\ \A r \in reported.chains :
               \A c \in Range(r.chain) : Met(c, Range(reported.crls))

\* From then on the tree has it, and nothing gathered is older.
NoOlder(crls) ==
    \A crl \in crls : \A r \in Range(reported.crls) :
        r.issuer = crl.issuer => tree.crls[r.issuer].edition <= crl.edition

Mirrored ==
    stage # "idle" /\ ~InRefresh =>
        /\ \A r \in reported.chains : Collected(tree, r.signer)
        /\ \A r \in Range(reported.crls) :
               /\ tree.crls[r.issuer] \in Range(reported.crls)
               /\ tree.crls[r.issuer].issuer = r.issuer
               /\ IF stage = "sites" \/ Collecting
                  THEN disk.crls[r.issuer] = tree.crls[r.issuer]
                  ELSE /\ disk.crls[r.issuer] \in Crl
                       /\ disk.crls[r.issuer].edition
                              >= tree.crls[r.issuer].edition
        /\ NoOlder(Range(fetched))
        /\ \A h \in Range(harvests) : NoOlder(Range(h.crls))

\* What has been settled, up to the CRLs of the harvest settled now.
Settling ==
    stage \in {"settle", "settleCrls", "sealed"} =>
        \A i \in settled : \A c \in Range(disk.chains[i]) :
            c.extension # "absent" =>
                \E u \in Range(c.points) \cap Uri :
                    \/ disk.crls[Publishes[u]] \in served
                    \/ \E crl \in Range(fetched) : crl.issuer = Publishes[u]

LtvInv ==
    /\ Typed /\ Cleared /\ Dated /\ Followed
    /\ Reported /\ Mirrored /\ Settling

-----------------------------------------------------------------------------
LEMMA HeadAndTail ==
    ASSUME NEW T, NEW s \in Seq(T), s # <<>>
    PROVE  /\ Head(s) = s[1] /\ Head(s) \in T /\ Tail(s) \in Seq(T)
           /\ Range(s) = {Head(s)} \cup Range(Tail(s))
<1>1. PICK n \in Nat : n = Len(s) /\ n >= 1 /\ DOMAIN s = 1..n
    OBVIOUS
<1>2. PICK t : t = Tail(s)
    OBVIOUS
<1>3. /\ t \in Seq(T) /\ DOMAIN t = 1..(n - 1)
      /\ \A i \in 1..(n - 1) : t[i] = s[i + 1]
    BY <1>1, <1>2
<1>4. Head(s) = s[1] /\ s[1] \in T
    OBVIOUS
<1>5. ASSUME NEW i \in 1..n
      PROVE  s[i] \in {Head(s)} \cup Range(t)
    <2>1. CASE i = 1
        BY <1>4, <2>1
    <2>2. CASE i # 1
        <3>1. i - 1 \in 1..(n - 1) /\ t[i - 1] = s[(i - 1) + 1]
              /\ (i - 1) + 1 = i
            BY <1>3, <2>2
        <3> QED
            BY <1>3, <3>1 DEF Range
    <2> QED
        BY <2>1, <2>2
<1>6. ASSUME NEW i \in 1..(n - 1)
      PROVE  t[i] \in Range(s)
    <2>1. i + 1 \in 1..n /\ t[i] = s[i + 1]
        BY <1>3
    <2> QED
        BY <1>1, <2>1 DEF Range
<1>7. Head(s) \in Range(s)
    BY <1>1, <1>4 DEF Range
<1>8. Range(s) \subseteq {Head(s)} \cup Range(t)
    BY <1>1, <1>5 DEF Range
<1>9. Range(t) \subseteq Range(s)
    BY <1>3, <1>6 DEF Range
<1> QED
    BY <1>2, <1>3, <1>4, <1>7, <1>8, <1>9

LEMMA AppendedTo ==
    ASSUME NEW T, NEW s \in Seq(T), NEW x \in T
    PROVE  LET next == Append(s, x)
           IN  /\ next \in Seq(T)
               /\ Range(next) = Range(s) \cup {x}
               /\ DOMAIN next = 1..(Len(s) + 1)
               /\ DOMAIN s = 1..Len(s) /\ Len(s) \in Nat
               /\ \A i \in 1..Len(s) : next[i] = s[i]
               /\ next[Len(s) + 1] = x
<1>1. PICK n \in Nat : n = Len(s) /\ DOMAIN s = 1..n
    OBVIOUS
<1>2. PICK next : next = Append(s, x)
    OBVIOUS
<1>3. /\ next \in Seq(T) /\ DOMAIN next = 1..(n + 1)
      /\ \A i \in 1..n : next[i] = s[i]
      /\ next[n + 1] = x
    BY <1>1, <1>2
<1>4. \A i \in 1..(n + 1) : i \in 1..n \/ i = n + 1
    BY <1>1
<1>5. Range(next) = Range(s) \cup {x}
    BY <1>1, <1>3, <1>4 DEF Range
<1> QED
    BY <1>1, <1>2, <1>3, <1>5

LEMMA EmptyRange == Range(<<>>) = {}
BY DEF Range

LEMMA RangeIn ==
    ASSUME NEW T, NEW s \in Seq(T)
    PROVE  Range(s) \subseteq T /\ \A i \in DOMAIN s : s[i] \in Range(s)
BY DEF Range

\* The last place is that of the least number of places after it.
LEMMA LastPlace ==
    ASSUME NEW n \in Nat, NEW S \in SUBSET (1..n), S # {}
    PROVE  Max(S) \in S /\ \A j \in S : j <= Max(S)
<1> DEFINE after == {n - k : k \in S}
<1>1. \A k \in S : k \in 1..n /\ n - k \in Nat
    OBVIOUS
<1>2. after \in SUBSET Nat /\ after # {}
    BY <1>1
<1>3. PICK m \in after : \A j \in after : m <= j
    <2> HIDE DEF after
    <2> QED
        BY <1>2, LeastNumber
<1>4. PICK k \in S : m = n - k
    BY <1>3
<1>5. ASSUME NEW j \in S
      PROVE  k >= j /\ j <= k
    <2>1. n - k <= n - j
        BY <1>3, <1>4
    <2> QED
        BY <1>1, <2>1
<1> QED
    BY <1>4, <1>5 DEF Max

LEMMA FirstPlace ==
    ASSUME NEW S \in SUBSET Nat, S # {}
    PROVE  Min(S) \in S
BY LeastNumber DEF Min

-----------------------------------------------------------------------------
LEMMA KeptShape ==
    ASSUME fetched \in Seq(Crl), NEW crl \in Crl
    PROVE  /\ Kept(crl) \in Seq(Crl)
           /\ Range(fetched) \subseteq Range(Kept(crl))
           /\ Range(Kept(crl)) \subseteq Range(fetched) \cup {crl}
           /\ \E held \in Range(Kept(crl)) : held.issuer = crl.issuer
BY AppendedTo DEF Kept

LEMMA MetByMore ==
    ASSUME NEW c, NEW some, NEW more, Met(c, some),
           \A crl \in some : \E d \in more : d.issuer = crl.issuer
    PROVE  Met(c, more)
BY DEF Met

\* What Upserted has for an issuer that is reported is what came last of it.
LEMMA UpsertedLast ==
    ASSUME NEW crls, NEW recorded \in Seq(Crl), NEW i \in Name,
           \E crl \in Range(recorded) : crl.issuer = i
    PROVE  \E k \in DOMAIN recorded :
               /\ Upserted(crls, recorded)[i] = recorded[k]
               /\ recorded[k].issuer = i
               /\ \A m \in DOMAIN recorded :
                      m > k => recorded[m].issuer # recorded[k].issuer
<1> DEFINE places == {k \in DOMAIN recorded : recorded[k].issuer = i}
<1>1. PICK n \in Nat : n = Len(recorded) /\ DOMAIN recorded = 1..n
    OBVIOUS
<1>2. places \in SUBSET (1..n) /\ places # {}
    BY <1>1 DEF Range
<1>3. PICK k \in places : k = Max(places) /\ \A j \in places : j <= k
    BY <1>1, <1>2, LastPlace
<1>4. Upserted(crls, recorded)[i] = recorded[k]
    BY <1>2, <1>3 DEF Upserted
<1>5. ASSUME NEW m \in DOMAIN recorded, m > k
      PROVE  recorded[m].issuer # i
    <2> SUFFICES ASSUME m \in places PROVE FALSE
        OBVIOUS
    <2>1. m <= k
        BY <1>3
    <2>2. m \in Nat /\ k \in Nat
        BY <1>1
    <2> HIDE DEF places
    <2> QED
        BY <1>5, <2>1, <2>2
<1> QED
    BY <1>3, <1>4, <1>5

LEMMA UpsertedTypes ==
    ASSUME NEW crls \in Crls, NEW recorded \in Seq(Crl)
    PROVE  Upserted(crls, recorded) \in Crls
<1>1. ASSUME NEW i \in Name
      PROVE  Upserted(crls, recorded)[i] \in Crl \cup {NoFile}
    <2>1. CASE \E crl \in Range(recorded) : crl.issuer = i
        BY <2>1, UpsertedLast
    <2>2. CASE ~\E crl \in Range(recorded) : crl.issuer = i
        <3>1. Upserted(crls, recorded)[i] = crls[i]
            BY <2>2 DEF Upserted, Range
        <3> QED
            BY <3>1 DEF Crls
    <2> QED
        BY <2>1, <2>2
<1>2. Upserted(crls, recorded) = [i \in Name |-> Upserted(crls, recorded)[i]]
    BY DEF Upserted
<1> QED
    BY <1>1, <1>2 DEF Crls

\* What a fetch brings is of the edition its issuer publishes, and meets the
\* certificate that it is fetched for.
Fetched(crl) ==
    /\ crl \in Crl
    /\ fetched' = Kept(crl) /\ served' = served \cup {crl}
    /\ crl.edition = edition[crl.issuer]
    /\ left # <<>> /\ left' = Tail(left) /\ Met(Head(left), {crl})
    /\ stage = "uris" /\ stage' = "certificates"
    /\ UNCHANGED <<disk, tree, pending, source, reported, harvests, edition,
                   settled>>

LEMMA FetchShape ==
    ASSUME Typed, Followed, FetchCrl
    PROVE  \E crl : Fetched(crl)
<1>1. /\ stage = "uris" /\ left # <<>> /\ left \in Seq(Certificate)
      /\ uris # {} /\ uris \subseteq DistributionUris(left[1])
    BY DEF FetchCrl, Followed, Typed
<1>2. PICK c \in Certificate : c = Head(left) /\ c = left[1]
    BY <1>1, HeadAndTail
<1>3. c.points \in Seq(Uri \cup {"other"})
    BY DEF Certificate
<1>4. uris \subseteq DOMAIN c.points /\ DOMAIN c.points \subseteq Nat
    BY <1>1, <1>2, <1>3 DEF DistributionUris
<1>5. Min(uris) \in uris
    BY <1>1, <1>4, FirstPlace
<1>6. PICK u \in Uri : u = c.points[Min(uris)] /\ u \in Range(c.points)
    BY <1>1, <1>2, <1>4, <1>5 DEF DistributionUris, Range
<1>7. PICK crl : crl = Fetch(u)
    OBVIOUS
<1>8. /\ crl \in Crl /\ crl.issuer = Publishes[u]
      /\ crl.edition = edition[crl.issuer]
    <2>1. Publishes[u] \in Name /\ edition[Publishes[u]] \in Nat
        BY LtvAssumption DEF Typed
    <2> QED
        BY <1>7, <2>1 DEF Fetch, Crl
<1>9. Met(c, {crl})
    BY <1>6, <1>8 DEF Met
<1>10. /\ fetched' = Kept(crl) /\ served' = served \cup {crl}
       /\ left' = Tail(left) /\ stage' = "certificates"
       /\ UNCHANGED <<disk, tree, pending, source, reported, harvests,
                      edition, settled>>
    BY <1>2, <1>6, <1>7 DEF FetchCrl
<1> QED
    BY <1>1, <1>2, <1>8, <1>9, <1>10 DEF Fetched

LEMMA GiveUpKeeps ==
    ASSUME LtvInv, GiveUpStamp
    PROVE  LtvInv'
<1> USE DEF LtvInv
<1>1. /\ stage' = "idle" /\ pending' = {} /\ harvests' = <<>>
      /\ fetched' = <<>> /\ left' = <<>> /\ reported' = NoReport
      /\ UNCHANGED <<disk, tree, edition, served, settled>>
    BY DEF GiveUpStamp, Forget, ltvHistory
<1>2. Typed'
    <2>1. NoReport \in [chains : SUBSET Report, crls : Seq(Crl)]
        BY DEF NoReport
    <2> QED
        BY <1>1, <2>1 DEF Typed, Collecting
<1>3. Cleared'
    BY DEF Cleared, GiveUpStamp, Forget
<1>4. Dated'
    <2>1. /\ Range(fetched') = {} /\ Range(harvests') = {}
          /\ Range(reported'.crls) = {}
        BY <1>1, EmptyRange DEF NoReport
    <2> QED
        BY <1>1, <2>1 DEF Dated
<1>5. Followed'
    BY EmptyRange DEF Followed, GiveUpStamp, Forget, Unset
<1>6. Reported'
    BY DEF Reported, GiveUpStamp, NoReport
<1>7. Mirrored'
    BY DEF Mirrored, GiveUpStamp
<1>8. Settling'
    BY DEF Settling, GiveUpStamp
<1> QED
    BY <1>2, <1>3, <1>4, <1>5, <1>6, <1>7, <1>8

LEMMA BeginKeeps ==
    ASSUME LtvInv, BeginRefresh
    PROVE  LtvInv'
<1> USE DEF LtvInv
<1>1. Typed'
    BY DEF Typed, Collecting, BeginRefresh, collecting
<1>2. Cleared'
    BY DEF Cleared, Collecting, BeginRefresh, collecting
<1>3. Dated'
    BY EmptyRange DEF Dated, Cleared, BeginRefresh, collecting, NoReport
<1>4. Followed'
    BY DEF Followed, Collecting, BeginRefresh
<1>5. Reported'
    BY DEF Reported, Cleared, BeginRefresh, NoReport
<1>6. Mirrored'
    BY DEF Mirrored, InRefresh, BeginRefresh
<1>7. Settling'
    BY DEF Settling, BeginRefresh
<1> QED
    BY <1>1, <1>2, <1>3, <1>4, <1>5, <1>6, <1>7

LEMMA ReadRecordKeeps ==
    ASSUME LtvInv, ReadRecord
    PROVE  LtvInv'
<1> USE DEF LtvInv
<1>1. Typed'
    <2>1. PICK i \in pending :
              /\ source' = [signer |-> i, chain |-> disk.chains[i]]
              /\ left' = disk.chains[i]
        BY DEF ReadRecord
    <2>2. i \in Name /\ disk.chains[i] \in Seq(Certificate)
        BY <2>1 DEF Typed, Files, Chains, Cleared
    <2>3. source' \in Report /\ left' \in Seq(Certificate)
        BY <2>1, <2>2 DEF Report
    <2> QED
        BY <2>3 DEF Typed, ReadRecord, ltvHistory
<1>2. Cleared'
    BY DEF Cleared, InRefresh, Refreshing, ReadRecord, ltvHistory
<1>3. Dated'
    BY DEF Dated, ReadRecord, ltvHistory
<1>4. Followed'
    BY DEF Followed, ReadRecord
<1>5. Reported'
    BY DEF Reported, InRefresh, ReadRecord
<1>6. Mirrored'
    BY DEF Mirrored, InRefresh, Collecting, ReadRecord
<1>7. Settling'
    BY DEF Settling, ReadRecord
<1> QED
    BY <1>1, <1>2, <1>3, <1>4, <1>5, <1>6, <1>7

LEMMA PassOverKeeps ==
    ASSUME LtvInv, PassOver
    PROVE  LtvInv'
<1> USE DEF LtvInv
<1>1. Typed'
    BY DEF Typed, Collecting, PassOver, ltvHistory
<1>2. Cleared'
    BY DEF Cleared, Collecting, InRefresh, Refreshing, PassOver, ltvHistory
<1>3. Dated'
    BY DEF Dated, PassOver, ltvHistory
<1>4. Followed'
    <2>1. /\ left # <<>> /\ left' = Tail(left) /\ stage = "certificates"
          /\ stage' = stage /\ AdvertisesNothing(Head(left))
          /\ UNCHANGED <<pending, source, fetched, reported, harvests>>
        BY DEF PassOver
    <2>2. Range(left) = {Head(left)} \cup Range(left')
        BY <2>1, HeadAndTail DEF Typed
    <2>3. \A crls : Met(Head(left), crls)
        BY <2>1 DEF Met, AdvertisesNothing
    <2> QED
        BY <2>1, <2>2, <2>3 DEF Followed, Collecting
<1>5. Reported'
    BY DEF Reported, InRefresh, Collecting, PassOver
<1>6. Mirrored'
    BY DEF Mirrored, InRefresh, Collecting, NoOlder, Collected, PassOver,
           ltvHistory
<1>7. Settling'
    BY DEF Settling, PassOver
<1> QED
    BY <1>1, <1>2, <1>3, <1>4, <1>5, <1>6, <1>7

LEMMA TurnKeeps ==
    ASSUME LtvInv, TurnToUris
    PROVE  LtvInv'
<1> USE DEF LtvInv
<1>1. Typed'
    BY DEF Typed, Collecting, TurnToUris, ltvHistory
<1>2. Cleared'
    BY DEF Cleared, Collecting, InRefresh, Refreshing, TurnToUris, ltvHistory
<1>3. Dated'
    BY DEF Dated, TurnToUris, ltvHistory
<1>4. Followed'
    BY DEF Followed, Collecting, TurnToUris
<1>5. Reported'
    BY DEF Reported, InRefresh, Collecting, TurnToUris
<1>6. Mirrored'
    BY DEF Mirrored, InRefresh, Collecting, NoOlder, Collected, TurnToUris,
           ltvHistory
<1>7. Settling'
    BY DEF Settling, TurnToUris
<1> QED
    BY <1>1, <1>2, <1>3, <1>4, <1>5, <1>6, <1>7

LEMMA TryKeeps ==
    ASSUME LtvInv, TryNext
    PROVE  LtvInv'
<1> USE DEF LtvInv
<1>1. Typed'
    BY DEF Typed, Collecting, TryNext, ltvHistory
<1>2. Cleared'
    BY DEF Cleared, Collecting, InRefresh, Refreshing, TryNext, ltvHistory
<1>3. Dated'
    BY DEF Dated, TryNext, ltvHistory
<1>4. Followed'
    BY DEF Followed, Collecting, TryNext
<1>5. Reported'
    BY DEF Reported, InRefresh, Collecting, TryNext
<1>6. Mirrored'
    BY DEF Mirrored, InRefresh, Collecting, NoOlder, Collected, TryNext,
           ltvHistory
<1>7. Settling'
    BY DEF Settling, TryNext
<1> QED
    BY <1>1, <1>2, <1>3, <1>4, <1>5, <1>6, <1>7

LEMMA FetchKeeps ==
    ASSUME LtvInv, FetchCrl
    PROVE  LtvInv'
<1> USE DEF LtvInv
<1>1. PICK crl : Fetched(crl)
    BY FetchShape
<1>2. /\ fetched' \in Seq(Crl) /\ Range(fetched) \subseteq Range(fetched')
      /\ Range(fetched') \subseteq Range(fetched) \cup {crl}
      /\ \E held \in Range(fetched') : held.issuer = crl.issuer
    BY <1>1, KeptShape DEF Fetched, Typed
<1>3. Typed'
    <2>1. left' \in Seq(Certificate)
        BY <1>1, HeadAndTail DEF Fetched, Typed
    <2> QED
        BY <1>1, <1>2, <2>1 DEF Fetched, Typed, Collecting
<1>4. Cleared'
    BY DEF Cleared, Collecting, InRefresh, Refreshing, FetchCrl
<1>5. Dated'
    <2>1. served' = served \cup {crl} /\ crl \in Crl
          /\ crl.edition = edition[crl.issuer]
          /\ UNCHANGED <<edition, reported, harvests>>
        BY <1>1 DEF Fetched
    <2>2. crl.edition <= edition[crl.issuer]
        BY <2>1 DEF Crl
    <2> QED
        BY <1>2, <2>1, <2>2 DEF Dated
<1>6. Followed'
    <2>1. Range(left) = {Head(left)} \cup Range(left')
        BY <1>1, HeadAndTail DEF Fetched, Typed
    <2>2. Met(Head(left), Range(fetched'))
        BY <1>1, <1>2, MetByMore DEF Fetched
    <2>3. \A c : Met(c, Range(fetched)) => Met(c, Range(fetched'))
        BY <1>2, MetByMore
    <2> QED
        BY <1>1, <2>1, <2>2, <2>3 DEF Fetched, Followed, Collecting
<1>7. Reported'
    BY DEF Reported, InRefresh, Collecting, FetchCrl
<1>8. Mirrored'
    <2> SUFFICES ASSUME pending = {}
                 PROVE  Mirrored'
        BY <1>1 DEF Fetched, Mirrored, InRefresh, Collecting
    <2>1. /\ stage # "idle" /\ ~InRefresh /\ Collecting /\ Collecting'
        BY <1>1 DEF Fetched, InRefresh, Collecting
    <2>2. \A r \in reported.chains : Collected(tree, r.signer)'
        BY <1>1, <2>1 DEF Fetched, Mirrored, Collected
    <2>3. NoOlder(Range(fetched) \cup {crl})
        <3> SUFFICES ASSUME NEW r \in Range(reported.crls),
                            r.issuer = crl.issuer
                     PROVE  tree.crls[r.issuer].edition <= crl.edition
            BY <2>1 DEF NoOlder, Mirrored
        <3>1. tree.crls[r.issuer] \in served
              /\ tree.crls[r.issuer].issuer = crl.issuer
            BY <2>1 DEF Mirrored, Dated
        <3> QED
            BY <1>1, <3>1 DEF Dated, Fetched
    <2>4. NoOlder(Range(fetched))'
        BY <1>1, <1>2, <2>3 DEF NoOlder, Fetched
    <2> QED
        BY <1>1, <2>1, <2>2, <2>4 DEF Fetched, Mirrored, NoOlder
<1>9. Settling'
    BY DEF Settling, FetchCrl
<1> QED
    BY <1>3, <1>4, <1>5, <1>6, <1>7, <1>8, <1>9

LEMMA WriteKeeps ==
    ASSUME LtvInv, WriteCrl
    PROVE  LtvInv'
<1> USE DEF LtvInv
<1>1. PICK head \in Crl :
          /\ head = Head(fetched) /\ fetched' \in Seq(Crl)
          /\ Range(fetched) = {head} \cup Range(fetched')
    BY HeadAndTail DEF WriteCrl, Typed
<1>2. /\ stage = "certificates" /\ stage' = stage /\ left = <<>>
      /\ pending # {} /\ pending' = pending
      /\ disk' = [disk EXCEPT !.crls[head.issuer] = head]
      /\ reported' = [reported EXCEPT !.crls = Append(@, head)]
      /\ UNCHANGED <<tree, source, left, uris, harvests, edition, served,
                     settled>>
    BY <1>1 DEF WriteCrl, Refreshing, ltvHistory
<1>3. /\ reported'.crls = Append(reported.crls, head)
      /\ reported'.chains = reported.chains
      /\ Range(reported'.crls) = Range(reported.crls) \cup {head}
    BY <1>2, AppendedTo DEF Typed
<1>4. Typed'
    <2>1. disk' \in Files
        BY <1>2 DEF Typed, Files, Crls
    <2>2. reported' \in [chains : SUBSET Report, crls : Seq(Crl)]
        <3>1. Append(reported.crls, head) \in Seq(Crl)
            BY AppendedTo DEF Typed
        <3> QED
            BY <1>2, <3>1 DEF Typed
    <2> QED
        BY <1>1, <1>2, <2>1, <2>2 DEF Typed, Collecting
<1>5. Cleared'
    BY DEF Cleared, Collecting, InRefresh, Refreshing, WriteCrl, ltvHistory
<1>6. Dated'
    BY <1>1, <1>2, <1>3 DEF Dated
<1>7. Followed'
    <2> SUFFICES ASSUME NEW c \in Range(source.chain)
                 PROVE  \/ Met(c, Range(fetched'))
                        \/ Met(c, Range(reported'.crls))
        BY <1>2 DEF Followed, Collecting
    <2>1. Met(c, Range(fetched)) \/ Met(c, Range(reported.crls))
        BY <1>2, EmptyRange DEF Followed, Collecting
    <2> QED
        BY <1>1, <1>3, <2>1 DEF Met
<1>8. Reported'
    <2>1. InRefresh
        BY <1>2 DEF InRefresh, Collecting
    <2>2. PICK n \in Nat :
              /\ n = Len(reported.crls) /\ DOMAIN reported.crls = 1..n
              /\ DOMAIN reported'.crls = 1..(n + 1)
              /\ \A k \in 1..n : reported'.crls[k] = reported.crls[k]
              /\ reported'.crls[n + 1] = head
        BY <1>3, AppendedTo DEF Typed
    <2>3. /\ disk'.crls[head.issuer] = head
          /\ \A i : i # head.issuer => disk'.crls[i] = disk.crls[i]
        BY <1>2 DEF Typed, Files, Crls, Crl
    <2>4. ASSUME NEW k \in 1..(n + 1),
                 \A m \in 1..(n + 1) :
                     m > k => reported'.crls[m].issuer
                                  # reported'.crls[k].issuer
          PROVE  disk'.crls[reported'.crls[k].issuer] = reported'.crls[k]
        <3>1. CASE k = n + 1
            BY <2>2, <2>3, <3>1
        <3>2. CASE k # n + 1
            <4>1. k \in 1..n /\ n + 1 > k
                BY <3>2
            <4>2. head.issuer # reported.crls[k].issuer
                BY <2>2, <2>4, <4>1
            <4>3. \A m \in 1..n : m > k => reported.crls[m].issuer
                                               # reported.crls[k].issuer
                BY <2>2, <2>4, <4>1
            <4>4. disk.crls[reported.crls[k].issuer] = reported.crls[k]
                BY <2>1, <2>2, <4>1, <4>3 DEF Reported
            <4> QED
                BY <2>2, <2>3, <4>1, <4>2, <4>4
        <3> QED
            BY <3>1, <3>2
    <2>5. \A r \in reported.chains :
              \A c \in Range(r.chain) : Met(c, Range(reported'.crls))
        BY <1>3, <2>1, MetByMore DEF Reported
    <2> QED
        BY <1>3, <2>2, <2>4, <2>5 DEF Reported
<1>9. Mirrored'
    BY <1>2 DEF Mirrored, InRefresh, Collecting
<1>10. Settling'
    BY DEF Settling, WriteCrl
<1> QED
    BY <1>4, <1>5, <1>6, <1>7, <1>8, <1>9, <1>10

LEMMA ReportKeeps ==
    ASSUME LtvInv, ReportChain
    PROVE  LtvInv'
<1> USE DEF LtvInv
<1>1. Typed'
    BY DEF Typed, Collecting, ReportChain, Forget, ltvHistory
<1>2. Cleared'
    BY DEF Cleared, Collecting, InRefresh, Refreshing, ReportChain, Forget,
           ltvHistory
<1>3. Dated'
    BY DEF Dated, ReportChain, Forget, ltvHistory
<1>4. Followed'
    BY DEF Followed, Collecting, ReportChain
<1>5. Reported'
    <2>1. /\ stage = "certificates" /\ left = <<>> /\ fetched = <<>>
          /\ pending # {} /\ UNCHANGED disk
          /\ reported' = [reported EXCEPT !.chains = @ \cup {source}]
        BY DEF ReportChain, Refreshing
    <2>2. InRefresh /\ Collecting
        BY <2>1 DEF InRefresh, Collecting
    <2>3. reported'.crls = reported.crls
          /\ reported'.chains = reported.chains \cup {source}
        BY <2>1 DEF Typed
    <2>4. \A c \in Range(source.chain) : Met(c, Range(reported.crls))
        BY <2>1, <2>2, EmptyRange DEF Followed, Met
    <2> QED
        BY <2>1, <2>2, <2>3, <2>4 DEF Reported
<1>6. Mirrored'
    BY DEF Mirrored, InRefresh, ReportChain
<1>7. Settling'
    BY DEF Settling, ReportChain
<1> QED
    BY <1>1, <1>2, <1>3, <1>4, <1>5, <1>6, <1>7

LEMMA MirrorKeeps ==
    ASSUME LtvInv, Mirror
    PROVE  LtvInv'
<1> USE DEF LtvInv
<1>1. /\ stage = "records" /\ InRefresh /\ stage' = "sites" /\ pending = {}
      /\ tree' = MirroredTree
      /\ fetched = <<>> /\ fetched' = <<>>
      /\ harvests = <<>> /\ harvests' = <<>>
      /\ UNCHANGED <<disk, pending, reported, edition, served, settled>>
    BY DEF Mirror, collecting, ltvHistory, InRefresh, Cleared
<1>2. Typed'
    <2>1. Upserted(tree.crls, reported.crls) \in Crls
        BY UpsertedTypes DEF Typed, Files
    <2>2. MirroredTree.chains \in Chains
        BY DEF MirroredTree, Chains, Typed, Files, Report
    <2>3. tree' \in Files
        BY <1>1, <2>1, <2>2 DEF MirroredTree, Files
    <2> QED
        BY <1>1, <2>3 DEF Typed, Collecting, Mirror, collecting
<1>3. Cleared'
    BY DEF Cleared, InRefresh, Mirror, collecting, ltvHistory
<1>4. Dated'
    BY DEF Dated, Mirror, collecting, ltvHistory
<1>5. Followed'
    BY DEF Followed, Collecting, Mirror
<1>6. Reported'
    BY DEF Reported, InRefresh, Mirror
<1>7. Mirrored'
    <2>1. ASSUME NEW r \in Range(reported.crls)
          PROVE  /\ tree'.crls[r.issuer] \in Range(reported.crls)
                 /\ tree'.crls[r.issuer].issuer = r.issuer
                 /\ disk.crls[r.issuer] = tree'.crls[r.issuer]
        <3>1. reported.crls \in Seq(Crl)
            BY DEF Typed
        <3>2. r \in Crl
            BY <3>1, RangeIn
        <3>3. r.issuer \in Name /\ reported.crls \in Seq(Crl)
            BY <3>1, <3>2 DEF Crl
        <3>4. PICK k \in DOMAIN reported.crls :
                  /\ Upserted(tree.crls, reported.crls)[r.issuer]
                         = reported.crls[k]
                  /\ reported.crls[k].issuer = r.issuer
                  /\ \A m \in DOMAIN reported.crls :
                         m > k => reported.crls[m].issuer
                                      # reported.crls[k].issuer
            BY <3>3, UpsertedLast
        <3>5. tree'.crls[r.issuer] = reported.crls[k]
            BY <1>1, <3>4 DEF MirroredTree
        <3>6. disk.crls[reported.crls[k].issuer] = reported.crls[k]
            BY <1>1, <3>4 DEF Reported
        <3> QED
            BY <3>4, <3>5, <3>6 DEF Range
    <2>2. ASSUME NEW r \in reported.chains
          PROVE  Collected(tree, r.signer)'
        <3>1. r.signer \in Name
            BY DEF Typed, Report
        <3>2. PICK s \in reported.chains : tree'.chains[r.signer] = s.chain
            BY <1>1, <3>1 DEF MirroredTree
        <3>3. ASSUME NEW c \in Range(s.chain), c.extension # "absent"
              PROVE  \E u \in Range(c.points) \cap Uri :
                         tree'.crls[Publishes[u]] \in served'
            <4>1. Met(c, Range(reported.crls))
                BY <1>1 DEF Reported
            <4>2. PICK u \in Range(c.points) \cap Uri :
                      \E crl \in Range(reported.crls) :
                          crl.issuer = Publishes[u]
                BY <3>3, <4>1 DEF Met
            <4>3. tree'.crls[Publishes[u]] \in Range(reported.crls)
                BY <2>1, <4>2
            <4> QED
                BY <1>1, <4>3 DEF Dated
        <3> QED
            BY <3>2, <3>3 DEF Collected
    <2>3. Range(fetched') = {} /\ Range(harvests') = {}
        BY <1>1, EmptyRange
    <2> QED
        BY <1>1, <2>1, <2>2, <2>3 DEF Mirrored, NoOlder
<1>8. Settling'
    BY DEF Settling, Mirror
<1> QED
    BY <1>2, <1>3, <1>4, <1>5, <1>6, <1>7, <1>8

LEMMA HarvestKeeps ==
    ASSUME NEW token \in Sendable, LtvInv, Harvest(token)
    PROVE  LtvInv'
<1> USE DEF LtvInv
<1>1. Typed'
    <2>1. token.signer \in Name /\ token.chain \in Seq(Certificate)
        BY LtvAssumption DEF TokenSent
    <2> QED
        BY <2>1 DEF Typed, Harvest, ltvHistory, Report
<1>2. Cleared'
    BY DEF Cleared, InRefresh, Harvest, ltvHistory
<1>3. Dated'
    BY DEF Dated, Harvest, ltvHistory
<1>4. Followed'
    BY DEF Followed, Harvest
<1>5. Reported'
    BY DEF Reported, Cleared, InRefresh, Harvest
<1>6. Mirrored'
    BY DEF Mirrored, InRefresh, Collecting, NoOlder, Collected, Harvest,
           ltvHistory
<1>7. Settling'
    BY DEF Settling, Harvest
<1> QED
    BY <1>1, <1>2, <1>3, <1>4, <1>5, <1>6, <1>7

LEMMA BackKeeps ==
    ASSUME LtvInv, stage = "sites" \/ (Collecting /\ pending = {}),
           stage' = "sites", Forget,
           UNCHANGED <<disk, stray, tree, pending, reported, harvests,
                       edition, ltvHistory>>
    PROVE  LtvInv'
<1> USE DEF LtvInv
<1>1. Typed'
    BY DEF Typed, Collecting, Forget, ltvHistory
<1>2. Cleared'
    BY DEF Cleared, Collecting, InRefresh, Forget, ltvHistory
<1>3. Dated'
    BY EmptyRange DEF Dated, Forget, ltvHistory
<1>4. Followed'
    BY DEF Followed, Collecting
<1>5. Reported'
    BY DEF Reported, InRefresh, Collecting
<1>6. Mirrored'
    BY EmptyRange
    DEF Mirrored, InRefresh, Collecting, NoOlder, Collected, Forget, ltvHistory
<1>7. Settling'
    BY DEF Settling
<1> QED
    BY <1>1, <1>2, <1>3, <1>4, <1>5, <1>6, <1>7

LEMMA KeepKeeps ==
    ASSUME LtvInv, KeepHarvest
    PROVE  LtvInv'
<1> USE DEF LtvInv
<1>1. /\ stage = "certificates" /\ stage' = "sites" /\ Collecting
      /\ left = <<>> /\ pending = {} /\ ~InRefresh
      /\ harvests' = Append(harvests, Harvested)
      /\ fetched' = <<>> /\ left' = <<>>
      /\ UNCHANGED <<disk, tree, pending, reported, edition, served, settled>>
    BY DEF KeepHarvest, Forget, ltvHistory, Cleared, Collecting, InRefresh
<1>2. Harvested \in Gathering /\ Harvested.crls = fetched
      /\ Harvested.chain = source.chain
    BY <1>1 DEF Typed, Harvested, Gathering, Report
<1>3. /\ harvests' \in Seq(Gathering)
      /\ Range(harvests') = Range(harvests) \cup {Harvested}
    BY <1>1, <1>2, AppendedTo DEF Typed
<1>4. Range(fetched') = {} /\ Range(left) = {}
    BY <1>1, EmptyRange
<1>5. Typed'
    BY <1>1, <1>3 DEF Typed, Collecting
<1>6. Cleared'
    BY DEF Cleared, Collecting, InRefresh, KeepHarvest, Forget, ltvHistory
<1>7. Dated'
    BY <1>1, <1>2, <1>3, <1>4 DEF Dated
<1>8. Followed'
    BY <1>1, <1>2, <1>3, <1>4 DEF Followed, Collecting
<1>9. Reported'
    BY DEF Reported, InRefresh, Collecting, KeepHarvest
<1>10. Mirrored'
    <2>1. \A h \in Range(harvests') : NoOlder(Range(h.crls))
        BY <1>1, <1>2, <1>3 DEF Mirrored, Collecting
    <2> QED
        BY <1>1, <1>4, <2>1 DEF Mirrored, NoOlder, Collected
<1>11. Settling'
    BY DEF Settling, KeepHarvest
<1> QED
    BY <1>5, <1>6, <1>7, <1>8, <1>9, <1>10, <1>11

LEMMA AskedKeeps ==
    ASSUME LtvInv, AllAsked
    PROVE  LtvInv'
<1> USE DEF LtvInv
<1>1. Typed'
    BY DEF Typed, Collecting, AllAsked, collecting, ltvHistory
<1>2. Cleared'
    BY DEF Cleared, InRefresh, AllAsked, collecting
<1>3. Dated'
    BY DEF Dated, AllAsked, collecting, ltvHistory
<1>4. Followed'
    BY DEF Followed, Collecting, AllAsked
<1>5. Reported'
    BY DEF Reported, InRefresh, Collecting, AllAsked
<1>6. Mirrored'
    <2>1. /\ stage = "sites" /\ ~InRefresh /\ stage' = "settle"
          /\ UNCHANGED <<disk, tree, fetched, reported, harvests, served>>
        BY DEF AllAsked, InRefresh, Collecting, collecting, ltvHistory
    <2>2. ASSUME NEW r \in Range(reported.crls)
          PROVE  /\ disk.crls[r.issuer] \in Crl
                 /\ disk.crls[r.issuer].edition
                        >= tree.crls[r.issuer].edition
        <3>1. PICK crl \in Crl :
                  crl = disk.crls[r.issuer] /\ crl = tree.crls[r.issuer]
            BY <2>1, RangeIn DEF Mirrored, Typed
        <3> QED
            BY <3>1 DEF Crl
    <2>3. ~Collecting' /\ stage' # "sites"
        BY <2>1 DEF Collecting
    <2> QED
        BY <2>1, <2>2, <2>3 DEF Mirrored, NoOlder, Collected
<1>7. Settling'
    BY DEF Settling, Cleared, AllAsked, ltvHistory
<1> QED
    BY <1>1, <1>2, <1>3, <1>4, <1>5, <1>6, <1>7

LEMMA SettleChainKeeps ==
    ASSUME LtvInv, SettleChain
    PROVE  LtvInv'
<1> USE DEF LtvInv
<1>1. PICK harvest \in Gathering :
          /\ harvest = Head(harvests) /\ harvests' \in Seq(Gathering)
          /\ Range(harvests) = {harvest} \cup Range(harvests')
    BY HeadAndTail DEF SettleChain, Typed
<1>2. /\ stage = "settle" /\ stage' = "settleCrls" /\ fetched = <<>>
      /\ disk' = [disk EXCEPT !.chains[harvest.signer] = harvest.chain]
      /\ settled' = settled \cup {harvest.signer}
      /\ fetched' = harvest.crls
      /\ UNCHANGED <<tree, pending, left, reported, edition, served>>
    BY <1>1 DEF SettleChain, Cleared
<1>3. /\ disk'.crls = disk.crls
      /\ disk'.chains[harvest.signer] = harvest.chain
      /\ \A i : i # harvest.signer => disk'.chains[i] = disk.chains[i]
    BY <1>1, <1>2 DEF Typed, Files, Chains, Gathering
<1>4. Typed'
    <2>1. disk' \in Files
        BY <1>1, <1>2 DEF Typed, Files, Chains, Gathering
    <2> QED
        BY <1>1, <1>2, <2>1 DEF Typed, Collecting, Gathering
<1>5. Cleared'
    BY DEF Cleared, InRefresh, SettleChain
<1>6. Dated'
    BY <1>1, <1>2 DEF Dated
<1>7. Followed'
    BY <1>1, <1>2 DEF Followed, Collecting
<1>8. Reported'
    BY DEF Reported, InRefresh, Collecting, SettleChain
<1>9. Mirrored'
    BY <1>1, <1>2, <1>3
       DEF Mirrored, InRefresh, Collecting, NoOlder, Collected
<1>10. Settling'
    <2> SUFFICES ASSUME NEW i \in settled', NEW c \in Range(disk'.chains[i]),
                        c.extension # "absent"
                 PROVE  \E u \in Range(c.points) \cap Uri :
                            \/ disk'.crls[Publishes[u]] \in served'
                            \/ \E crl \in Range(fetched') :
                                   crl.issuer = Publishes[u]
        BY DEF Settling
    <2>1. CASE i = harvest.signer
        <3>1. Met(c, Range(harvest.crls))
            BY <1>1, <1>3, <2>1 DEF Followed
        <3> QED
            BY <1>2, <3>1 DEF Met
    <2>2. CASE i # harvest.signer
        <3>1. i \in settled /\ c \in Range(disk.chains[i])
            BY <1>2, <1>3, <2>2
        <3>2. PICK u \in Range(c.points) \cap Uri :
                  disk.crls[Publishes[u]] \in served
            BY <1>2, <3>1, EmptyRange DEF Settling
        <3> QED
            BY <1>2, <1>3, <3>2
    <2> QED
        BY <2>1, <2>2
<1> QED
    BY <1>4, <1>5, <1>6, <1>7, <1>8, <1>9, <1>10

LEMMA SettleCrlKeeps ==
    ASSUME LtvInv, SettleCrl
    PROVE  LtvInv'
<1> USE DEF LtvInv
<1>1. PICK head \in Crl :
          /\ head = Head(fetched) /\ fetched' \in Seq(Crl)
          /\ Range(fetched) = {head} \cup Range(fetched')
    BY HeadAndTail DEF SettleCrl, Typed
<1>2. /\ stage = "settleCrls" /\ stage' = stage
      /\ disk' = [disk EXCEPT !.crls[head.issuer] = head]
      /\ UNCHANGED <<tree, pending, left, reported, harvests, edition, served,
                     settled>>
    BY <1>1 DEF SettleCrl, ltvHistory
<1>3. /\ disk'.crls[head.issuer] = head
      /\ disk'.chains = disk.chains
      /\ \A i : i # head.issuer => disk'.crls[i] = disk.crls[i]
    BY <1>2 DEF Typed, Files, Crls, Crl
<1>4. Typed'
    <2>1. disk' \in Files
        BY <1>2 DEF Typed, Files, Crls
    <2> QED
        BY <1>1, <1>2, <2>1 DEF Typed, Collecting
<1>5. Cleared'
    BY DEF Cleared, InRefresh, SettleCrl
<1>6. Dated'
    BY <1>1, <1>2 DEF Dated
<1>7. Followed'
    BY DEF Followed, Collecting, SettleCrl
<1>8. Reported'
    BY DEF Reported, InRefresh, Collecting, SettleCrl
<1>9. Mirrored'
    <2>1. /\ stage # "idle" /\ ~InRefresh /\ ~Collecting /\ stage # "sites"
          /\ ~InRefresh' /\ ~Collecting'
        BY <1>2 DEF InRefresh, Collecting
    <2>2. ASSUME NEW r \in Range(reported.crls)
          PROVE  /\ disk'.crls[r.issuer] \in Crl
                 /\ disk'.crls[r.issuer].edition
                        >= tree.crls[r.issuer].edition
        <3>1. CASE r.issuer # head.issuer
            BY <1>3, <2>1, <3>1 DEF Mirrored
        <3>2. CASE r.issuer = head.issuer
            <4>1. tree.crls[r.issuer].edition <= head.edition
                BY <1>1, <2>1, <3>2 DEF Mirrored, NoOlder
            <4>2. tree.crls[r.issuer] \in Crl
                BY <2>1, RangeIn DEF Mirrored, Typed
            <4> QED
                BY <1>3, <3>2, <4>1, <4>2 DEF Crl
        <3> QED
            BY <3>1, <3>2
    <2> QED
        BY <1>1, <1>2, <2>1, <2>2 DEF Mirrored, NoOlder, Collected
<1>10. Settling'
    <2> SUFFICES ASSUME NEW i \in settled, NEW c \in Range(disk.chains[i]),
                        c.extension # "absent"
                 PROVE  \E u \in Range(c.points) \cap Uri :
                            \/ disk'.crls[Publishes[u]] \in served
                            \/ \E crl \in Range(fetched') :
                                   crl.issuer = Publishes[u]
        BY <1>2, <1>3 DEF Settling
    <2>1. PICK u \in Range(c.points) \cap Uri :
              \/ disk.crls[Publishes[u]] \in served
              \/ \E crl \in Range(fetched) : crl.issuer = Publishes[u]
        BY <1>2 DEF Settling
    <2>2. head \in served
        BY <1>1 DEF Dated
    <2>3. CASE Publishes[u] = head.issuer
        BY <1>3, <2>2, <2>3
    <2>4. CASE Publishes[u] # head.issuer
        BY <1>1, <1>3, <2>1, <2>4
    <2> QED
        BY <2>3, <2>4
<1> QED
    BY <1>4, <1>5, <1>6, <1>7, <1>8, <1>9, <1>10

LEMMA SettledKeeps ==
    ASSUME LtvInv, Settled
    PROVE  LtvInv'
<1> USE DEF LtvInv
<1>1. Typed'
    BY DEF Typed, Collecting, Settled, collecting, ltvHistory
<1>2. Cleared'
    BY DEF Cleared, InRefresh, Settled, collecting
<1>3. Dated'
    BY DEF Dated, Settled, collecting, ltvHistory
<1>4. Followed'
    BY DEF Followed, Collecting, Settled
<1>5. Reported'
    BY DEF Reported, InRefresh, Collecting, Settled
<1>6. Mirrored'
    BY DEF Mirrored, InRefresh, Collecting, NoOlder, Collected, Settled,
           collecting, ltvHistory
<1>7. Settling'
    BY DEF Settling, Settled, collecting, ltvHistory
<1> QED
    BY <1>1, <1>2, <1>3, <1>4, <1>5, <1>6, <1>7

LEMMA PublishKeeps ==
    ASSUME NEW i \in Name, LtvInv, PublishCrl(i)
    PROVE  LtvInv'
<1> USE DEF LtvInv
<1>1. Typed'
    BY DEF Typed, Collecting, PublishCrl, collecting, ltvHistory
<1>2. Cleared'
    BY DEF Cleared, Collecting, InRefresh, Refreshing, PublishCrl, collecting,
           ltvHistory
<1>3. Dated'
    <2>1. ASSUME NEW crl \in served
          PROVE  crl.edition <= edition'[crl.issuer]
        <3>1. crl.issuer \in Name /\ crl.edition \in Nat
            BY DEF Typed, Crl
        <3>2. /\ edition[crl.issuer] \in Nat
              /\ crl.edition <= edition[crl.issuer]
            BY <3>1 DEF Typed, Dated
        <3>3. edition'[crl.issuer] \in {edition[crl.issuer],
                                        edition[crl.issuer] + 1}
            BY <3>1 DEF PublishCrl, Typed
        <3> QED
            BY <3>1, <3>2, <3>3
    <2> QED
        BY <2>1 DEF Dated, PublishCrl, collecting, ltvHistory
<1>4. Followed'
    BY DEF Followed, Collecting, PublishCrl, collecting
<1>5. Reported'
    BY DEF Reported, InRefresh, Collecting, PublishCrl
<1>6. Mirrored'
    BY DEF Mirrored, InRefresh, Collecting, NoOlder, Collected, PublishCrl,
           collecting, ltvHistory
<1>7. Settling'
    BY DEF Settling, PublishCrl, collecting, ltvHistory
<1> QED
    BY <1>1, <1>2, <1>3, <1>4, <1>5, <1>6, <1>7

LEMMA StutterKeeps ==
    ASSUME LtvInv, UNCHANGED ltvVars
    PROVE  LtvInv'
<1> USE DEF LtvInv
<1>1. Typed'
    BY DEF Typed, Collecting, ltvVars
<1>2. Cleared'
    BY DEF Cleared, Collecting, InRefresh, Refreshing, ltvVars
<1>3. Dated'
    BY DEF Dated, ltvVars
<1>4. Followed'
    BY DEF Followed, Collecting, ltvVars
<1>5. Reported'
    BY DEF Reported, InRefresh, Collecting, ltvVars
<1>6. Mirrored'
    BY DEF Mirrored, InRefresh, Collecting, NoOlder, Collected, ltvVars
<1>7. Settling'
    BY DEF Settling, ltvVars
<1> QED
    BY <1>1, <1>2, <1>3, <1>4, <1>5, <1>6, <1>7

LEMMA SiteFailsKeeps ==
    ASSUME LtvInv, stage = "sites" \/ (Collecting /\ pending = {}), SiteFails
    PROVE  LtvInv'
BY GiveUpKeeps, BackKeeps DEF SiteFails

LEMMA LtvInit == LtvStart => LtvInv
<1> SUFFICES ASSUME LtvStart PROVE LtvInv
    OBVIOUS
<1>1. /\ stage = "idle" /\ pending = {} /\ left = <<>> /\ fetched = <<>>
      /\ reported = NoReport /\ harvests = <<>>
      /\ served = {} /\ settled = {} /\ edition = [i \in Name |-> 1]
    BY DEF LtvStart
<1>2. ~Collecting /\ ~InRefresh
    BY <1>1 DEF Collecting, InRefresh
<1>3. Typed
    <2>1. disk \in Files /\ tree \in Files
        <3>1. [i \in Name |-> NoFile] \in Chains
              /\ [i \in Name |-> NoFile] \in Crls
            BY DEF Chains, Crls
        <3> QED
            BY <3>1, LtvAssumption DEF LtvStart, Files
    <2>2. NoReport \in [chains : SUBSET Report, crls : Seq(Crl)]
        BY DEF NoReport
    <2> QED
        BY <1>1, <1>2, <2>1, <2>2 DEF Typed
<1>4. Range(fetched) = {} /\ Range(harvests) = {} /\ Range(reported.crls) = {}
    BY <1>1, EmptyRange DEF NoReport
<1>5. Cleared /\ Dated /\ Followed
    BY <1>1, <1>2, <1>4 DEF Cleared, Dated, Followed
<1>6. Reported /\ Mirrored /\ Settling
    BY <1>1, <1>2 DEF Reported, Mirrored, Settling
<1> QED
    BY <1>3, <1>5, <1>6 DEF LtvInv

LEMMA LtvStep == LtvInv /\ [LtvNext]_ltvVars => LtvInv'
<1> SUFFICES ASSUME LtvInv, [LtvNext]_ltvVars
             PROVE  LtvInv'
    OBVIOUS
<1>1. CASE BeginRefresh \/ ReadRecord
    BY <1>1, BeginKeeps, ReadRecordKeeps
<1>2. CASE RefuseRecords \/ EndStamp
    BY <1>2, GiveUpKeeps DEF RefuseRecords, EndStamp
<1>3. CASE PassOver \/ TurnToUris \/ TryNext \/ FetchCrl
    BY <1>3, PassOverKeeps, TurnKeeps, TryKeeps, FetchKeeps
<1>4. CASE CollectingFails
    <2>1. Collecting
        BY <1>4 DEF CollectingFails, Collecting
    <2>2. ~Refreshing => pending = {}
        BY <2>1 DEF LtvInv, Cleared
    <2> QED
        BY <1>4, <2>1, <2>2, GiveUpKeeps, SiteFailsKeeps DEF CollectingFails
<1>5. CASE WriteCrl \/ ReportChain \/ Mirror
    BY <1>5, WriteKeeps, ReportKeeps, MirrorKeeps
<1>6. ASSUME NEW token \in Sendable, Harvest(token) \/ RefuseShape(token)
      PROVE  LtvInv'
    BY <1>6, HarvestKeeps, SiteFailsKeeps DEF RefuseShape
<1>7. CASE KeepHarvest
    BY <1>7, KeepKeeps
<1>8. CASE DropHarvest
    <2>1. Collecting /\ pending = {}
        BY <1>8 DEF DropHarvest, Collecting, LtvInv, Cleared
    <2> QED
        BY <1>8, <2>1, SiteFailsKeeps DEF DropHarvest
<1>9. CASE AllAsked \/ SettleChain \/ SettleCrl \/ Settled
    BY <1>9, AskedKeeps, SettleChainKeeps, SettleCrlKeeps, SettledKeeps
<1>10. ASSUME NEW i \in Name, PublishCrl(i)
       PROVE  LtvInv'
    BY <1>10, PublishKeeps
<1>11. CASE UNCHANGED ltvVars
    BY <1>11, StutterKeeps
<1> QED
    BY <1>1, <1>2, <1>3, <1>4, <1>5, <1>6, <1>7, <1>8, <1>9, <1>10, <1>11
       DEF LtvNext

LEMMA FollowsFromInv == LtvInv => CrlsFollowChains
<1> SUFFICES ASSUME LtvInv PROVE CrlsFollowChains
    OBVIOUS
<1> USE DEF LtvInv
<1>1. CASE stage = "sites"
    <2>1. ~InRefresh /\ stage # "idle" /\ stage # "sealed"
        BY <1>1 DEF InRefresh, Collecting
    <2> QED
        BY <1>1, <2>1 DEF Mirrored, CrlsFollowChains
<1>2. CASE stage = "sealed"
    <2>1. ~InRefresh /\ ~Collecting /\ stage \notin {"idle", "sites"}
          /\ fetched = <<>>
        BY <1>2 DEF InRefresh, Collecting, Cleared
    <2>2. \A i \in settled : Collected(disk, i)
        BY <1>2, <2>1, EmptyRange DEF Settling, Collected
    <2> QED
        BY <1>2, <2>1, <2>2 DEF Mirrored, CrlsFollowChains
<1> QED
    BY <1>1, <1>2 DEF CrlsFollowChains

(***************************************************************************)
(* A stamp seals revocation data of the moment of its tokens: for any      *)
(* number of authorities, distribution points and editions, and for chains *)
(* that share them in any way, the tree that a stamp seals has for every   *)
(* certificate of every chain on record a CRL that this stamp was served,  *)
(* and recording the harvest never goes back behind it.                    *)
(***************************************************************************)
THEOREM RevocationFollowsChains == LtvSpec => []CrlsFollowChains
BY LtvInit, LtvStep, FollowsFromInv, PTL DEF LtvSpec
=============================================================================
