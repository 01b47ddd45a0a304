---------------------------- MODULE Acquisition -----------------------------
(***************************************************************************)
(* What acquire_token promises whoever asks for a token: at most one token *)
(* per call, over the payload of this call, made by the authority after    *)
(* the call began, with a genTime the local clock does not contradict; or  *)
(* none.  How the authority is asked, and how often, is not said here.     *)
(***************************************************************************)
EXTENDS Integers

CONSTANTS
    Imprint,        \* what a token can be over: a digest under an algorithm
    MaxDivergence,  \* tolerance between genTime and the local clock
    None

VARIABLES
    now,      \* the local clock
    asked,    \* when the current call began
    wanted,   \* the imprint of the current call, None between calls
    obtained  \* what the last call returned, None for an error

acquisitionVars == <<now, asked, wanted, obtained>>

Begin ==
    /\ now \in Nat
    /\ asked = now
    /\ wanted = None
    /\ obtained = None

Ask(imprint) ==
    /\ wanted = None
    /\ wanted' = imprint
    /\ asked' = now
    /\ obtained' = None
    /\ UNCHANGED now

Grant(madeAt, genTime) ==
    /\ wanted # None
    /\ obtained' = [imprint |-> wanted, madeAt |-> madeAt,
                    genTime |-> genTime]
    /\ wanted' = None
    /\ UNCHANGED <<now, asked>>

Deny ==
    /\ wanted # None
    /\ wanted' = None
    /\ UNCHANGED <<now, asked, obtained>>

TimePasses ==
    /\ now' = now + 1
    /\ UNCHANGED <<asked, wanted, obtained>>

Acquire ==
    \/ \E imprint \in Imprint : Ask(imprint)
    \/ \E madeAt \in asked..now,
          genTime \in (now - MaxDivergence)..(now + MaxDivergence) :
           Grant(madeAt, genTime)
    \/ Deny
    \/ TimePasses

Promise == Begin /\ [][Acquire]_acquisitionVars
=============================================================================
